---- MODULE Spec2Model ----
(***************************************************************************)
(* Game-data resolution and normalization of svickars/baseball             *)
(* (web_app/lib): the game identifier codec, the resolve entry points with *)
(* their fallback chains, and the normalizers that turn raw records into   *)
(* the summary mapping consumed by the front end.                          *)
(*                                                                         *)
(* Python values are modelled as follows: a dict is a function with a      *)
(* string domain (a record), a list is a sequence, a str is a string,      *)
(* None is the value None below.  One behaviour is one request: Init draws *)
(* the entry point and its argument, the action of that entry point runs   *)
(* the whole handler against nondeterministic answers of the outside       *)
(* world (remote API, library, files), and records what was returned.      *)
(***************************************************************************)
EXTENDS Integers, Sequences, FiniteSets, TLC

VARIABLES entry, game_id, returned, result, contacted, world, has_arg, stdout, exit_status

vars == <<entry, game_id, returned, result, contacted, world, has_arg, stdout, exit_status>>

(***************************************************************************)
(* Bounds of the enumerated inputs.                                        *)
(***************************************************************************)
MaxRunners == 2

MaxInningNo == 2

MaxScore == 2

MaxGameNumber == 2

(***************************************************************************)
(* Python values and built-ins.                                            *)
(***************************************************************************)
None == [py_none |-> TRUE]

EmptyDict == <<>>

\* v is None, for a value v of any kind.
IsNone(v) == ToString(v) = ToString(None)

\* Truthiness of a value that is a dict or None.
Truthy(v) == v # None /\ v # EmptyDict

\* An integer that may also be None is carried boxed.
Box(n) == [int |-> n]

BoxTruthy(b) == b # None /\ b.int # 0

DictGet(d, k, default) == IF k \in DOMAIN d THEN d[k] ELSE default

RECURSIVE SumSeq(_)
SumSeq(s) == IF Len(s) = 0 THEN 0 ELSE Head(s) + SumSeq(Tail(s))

MapSeq(F(_), s) == [i \in 1..Len(s) |-> F(s[i])]

RECURSIVE SplitAcc(_, _, _, _)
SplitAcc(s, sep, cur, acc) ==
    IF s = "" THEN Append(acc, cur)
    ELSE IF Head(s) = sep THEN SplitAcc(Tail(s), sep, "", Append(acc, cur))
    ELSE SplitAcc(Tail(s), sep, cur \o Head(s), acc)

Split(s, sep) == SplitAcc(s, sep, "", <<>>)

RECURSIVE LStrip(_)
LStrip(s) == IF s # "" /\ Head(s) = " " THEN LStrip(Tail(s)) ELSE s

RECURSIVE RStrip(_)
RStrip(s) ==
    IF s # "" /\ SubSeq(s, Len(s), Len(s)) = " "
    THEN RStrip(SubSeq(s, 1, Len(s) - 1)) ELSE s

Strip(s) == RStrip(LStrip(s))

Digits == {"0", "1", "2", "3", "4", "5", "6", "7", "8", "9"}

DigitValue(c) ==
    CASE c = "0" -> 0 [] c = "1" -> 1 [] c = "2" -> 2 [] c = "3" -> 3
      [] c = "4" -> 4 [] c = "5" -> 5 [] c = "6" -> 6 [] c = "7" -> 7
      [] c = "8" -> 8 [] c = "9" -> 9

RECURSIVE AllDigits(_)
AllDigits(s) == s = "" \/ (Head(s) \in Digits /\ AllDigits(Tail(s)))

RECURSIVE DigitsValue(_, _)
DigitsValue(s, acc) ==
    IF s = "" THEN acc ELSE DigitsValue(Tail(s), 10 * acc + DigitValue(Head(s)))

\* int(str): surrounding whitespace is ignored, one sign is allowed, and
\* single underscores may separate digits.
RECURSIVE DropUnderscores(_)
DropUnderscores(s) ==
    IF s = "" THEN ""
    ELSE IF Head(s) = "_" THEN DropUnderscores(Tail(s))
    ELSE Head(s) \o DropUnderscores(Tail(s))

RECURSIVE UnderscoresOk(_, _)
UnderscoresOk(s, prevDigit) ==
    IF s = "" THEN prevDigit
    ELSE IF Head(s) = "_" THEN prevDigit /\ UnderscoresOk(Tail(s), FALSE)
    ELSE UnderscoresOk(Tail(s), TRUE)

IntBody(s) ==
    LET t == Strip(s) IN
    IF t # "" /\ Head(t) \in {"+", "-"} THEN Tail(t) ELSE t

IsIntLiteral(s) ==
    LET b == IntBody(s) IN
    /\ b # ""
    /\ UnderscoresOk(b, FALSE)
    /\ AllDigits(DropUnderscores(b))

IntOf(s) ==
    LET t == Strip(s)
        v == DigitsValue(DropUnderscores(IntBody(s)), 0)
    IN IF t # "" /\ Head(t) = "-" THEN 0 - v ELSE v

Str(n) == ToString(n)

(***************************************************************************)
(* Game identifier codec.                                                  *)
(***************************************************************************)
\* The parse prologue shared by the resolve entry points.  status tells how
\* far the prologue got: "too_short" raised before any local was bound,
\* "not_int" raised in int() with date_str, away_code and home_code bound.
ParseGameId(gid) ==
    LET parts == Split(gid, "-") IN
    IF Len(parts) < 6 THEN [status |-> "too_short"]
    ELSE LET bound == [date_str |-> parts[1] \o "-" \o parts[2] \o "-" \o parts[3],
                       away_code |-> parts[4],
                       home_code |-> parts[5]]
         IN IF IsIntLiteral(parts[6])
            THEN bound @@ [status |-> "ok", game_number |-> IntOf(parts[6])]
            ELSE bound @@ [status |-> "not_int"]

\* A formatter that drops the game number.
FormatGameId_NoNumber(date_str, away_code, home_code, game_number) ==
    date_str \o "-" \o away_code \o "-" \o home_code

FormatGameId(date_str, away_code, home_code, game_number) ==
    date_str \o "-" \o away_code \o "-" \o home_code \o "-" \o Str(game_number)

(***************************************************************************)
(* Static code tables.                                                     *)
(***************************************************************************)
team_names ==
    [TB |-> "Tampa Bay Rays", CHC |-> "Chicago Cubs", NYM |-> "New York Mets",
     LAD |-> "Los Angeles Dodgers", BOS |-> "Boston Red Sox",
     ATL |-> "Atlanta Braves", CLE |-> "Cleveland Guardians",
     DET |-> "Detroit Tigers", SEA |-> "Seattle Mariners",
     MIN |-> "Minnesota Twins", ARI |-> "Arizona Diamondbacks",
     COL |-> "Colorado Rockies", SD |-> "San Diego Padres",
     LAA |-> "Los Angeles Angels", OAK |-> "Oakland Athletics",
     TEX |-> "Texas Rangers", HOU |-> "Houston Astros",
     KC |-> "Kansas City Royals", STL |-> "St. Louis Cardinals",
     MIL |-> "Milwaukee Brewers", CIN |-> "Cincinnati Reds",
     PIT |-> "Pittsburgh Pirates", CHW |-> "Chicago White Sox",
     BAL |-> "Baltimore Orioles", WSH |-> "Washington Nationals",
     PHI |-> "Philadelphia Phillies", MIA |-> "Miami Marlins",
     NYY |-> "New York Yankees", TOR |-> "Toronto Blue Jays",
     SF |-> "San Francisco Giants"]

venue_mapping ==
    [CHC |-> "Wrigley Field", TB |-> "Tropicana Field", NYM |-> "Citi Field",
     LAD |-> "Dodger Stadium", BOS |-> "Fenway Park", ATL |-> "Truist Park",
     CLE |-> "Progressive Field", DET |-> "Comerica Park",
     SEA |-> "T-Mobile Park", MIN |-> "Target Field", ARI |-> "Chase Field",
     COL |-> "Coors Field", SD |-> "Petco Park", LAA |-> "Angel Stadium",
     OAK |-> "Oakland Coliseum", TEX |-> "Globe Life Field",
     HOU |-> "Minute Maid Park", KC |-> "Kauffman Stadium",
     STL |-> "Busch Stadium", MIL |-> "American Family Field",
     CIN |-> "Great American Ball Park", PIT |-> "PNC Park",
     CHW |-> "Guaranteed Rate Field", BAL |-> "Oriole Park at Camden Yards",
     WSH |-> "Nationals Park", PHI |-> "Citizens Bank Park",
     MIA |-> "loanDepot park", NYY |-> "Yankee Stadium",
     TOR |-> "Rogers Centre", SF |-> "Oracle Park"]

TeamName(code) == DictGet(team_names, code, code \o " Team")

(***************************************************************************)
(* Remote statistics API: schedule lookup.                                 *)
(***************************************************************************)
DaysInMonth(y, m) ==
    IF m \in {4, 6, 9, 11} THEN 30
    ELSE IF m # 2 THEN 31
    ELSE IF (y % 4 = 0 /\ y % 100 # 0) \/ y % 400 = 0 THEN 29 ELSE 28

\* datetime.strptime(date_str, '%Y-%m-%d') succeeds.
StrptimeOk(date_str) ==
    LET p == Split(date_str, "-") IN
    /\ Len(p) = 3
    /\ Len(p[1]) = 4 /\ AllDigits(p[1])
    /\ Len(p[2]) \in {1, 2} /\ AllDigits(p[2])
    /\ Len(p[3]) \in {1, 2} /\ AllDigits(p[3])
    /\ DigitsValue(p[1], 0) >= 1
    /\ DigitsValue(p[2], 0) \in 1..12
    /\ DigitsValue(p[3], 0) \in 1..DaysInMonth(DigitsValue(p[1], 0), DigitsValue(p[2], 0))

FetchError == [fetch_error |-> TRUE]

\* data['dates'][0].get('games', []) when data has a non-empty 'dates'.
ScheduleGamesOf(data) ==
    IF "dates" \in DOMAIN data /\ Len(data.dates) > 0
    THEN DictGet(data.dates[1], "games", <<>>)
    ELSE <<>>

GamePkOf(game) == IF "gamePk" \in DOMAIN game THEN Box(game.gamePk) ELSE None

\* The comparison without the game number.
ScheduleEntryMatches_AnyNumber(game, away_team_name, home_team_name, game_number) ==
    LET teams == DictGet(game, "teams", EmptyDict)
        away_team == DictGet(DictGet(teams, "away", EmptyDict), "team", EmptyDict)
        home_team == DictGet(DictGet(teams, "home", EmptyDict), "team", EmptyDict)
    IN /\ DictGet(away_team, "name", "") = away_team_name
       /\ DictGet(home_team, "name", "") = home_team_name

ScheduleEntryMatches(game, away_team_name, home_team_name, game_number) ==
    LET teams == DictGet(game, "teams", EmptyDict)
        away_team == DictGet(DictGet(teams, "away", EmptyDict), "team", EmptyDict)
        home_team == DictGet(DictGet(teams, "home", EmptyDict), "team", EmptyDict)
        game_details == DictGet(game, "game", EmptyDict)
    IN /\ DictGet(away_team, "name", "") = away_team_name
       /\ DictGet(home_team, "name", "") = home_team_name
       /\ DictGet(game_details, "gameNumber", 1) = game_number

RECURSIVE FirstMatchPk(_, _, _, _)
FirstMatchPk(games, away_team_name, home_team_name, game_number) ==
    IF Len(games) = 0 THEN None
    ELSE IF ScheduleEntryMatches(Head(games), away_team_name, home_team_name, game_number)
    THEN GamePkOf(Head(games))
    ELSE FirstMatchPk(Tail(games), away_team_name, home_team_name, game_number)

\* The value returned for the schedule response resp (FetchError when
\* urlopen or json.loads raised).
get_game_pk_from_schedule(date_str, away_code, home_code, game_number, resp) ==
    IF ~StrptimeOk(date_str) \/ resp = FetchError THEN None
    ELSE FirstMatchPk(ScheduleGamesOf(resp), TeamName(away_code),
                      TeamName(home_code), game_number)

(***************************************************************************)
(* Formatting of numbers.  A float is carried as a whole number of         *)
(* thousandths.                                                            *)
(***************************************************************************)
Pad2(n) == IF n < 10 THEN "0" \o Str(n) ELSE Str(n)

\* f"{x:.2f}" of a float carried as a whole number of hundredths.
FormatFixed2(centi) == Str(centi \div 100) \o "." \o Pad2(centi % 100)

Pad3(n) == IF n < 10 THEN "00" \o Str(n) ELSE IF n < 100 THEN "0" \o Str(n) ELSE Str(n)

\* f"{x:.3f}"
FormatFixed3(milli) == Str(milli \div 1000) \o "." \o Pad3(milli % 1000)

\* str(x) of a float: the shortest decimal, with at least one decimal place.
StrFloat(milli) ==
    LET f == milli % 1000
        d == IF f = 0 THEN "0"
             ELSE IF f % 100 = 0 THEN Str(f \div 100)
             ELSE IF f % 10 = 0 THEN (IF f < 100 THEN "0" ELSE "") \o Str(f \div 10)
             ELSE Pad3(f)
    IN Str(milli \div 1000) \o "." \o d

(***************************************************************************)
(* baseball_wrapper.py: the normalizer of the library's JSON document.     *)
(***************************************************************************)
PlayerName(info) ==
    Strip(DictGet(info, "first_name", "") \o " " \o DictGet(info, "last_name", ""))

RECURSIVE Contains(_, _)
Contains(s, sub) ==
    IF Len(s) < Len(sub) THEN FALSE
    ELSE SubSeq(s, 1, Len(sub)) = sub \/ Contains(Tail(s), sub)

\* "top_half" in str(appearance): the text of the dict holds its keys and
\* its string values.
ReprHasTopHalf(appearance) ==
    \/ \E k \in DOMAIN appearance : Contains(k, "top_half")
    \/ \E k \in DOMAIN appearance \cap {"plate_appearance_description",
                                         "plate_appearance_summary"} :
           Contains(appearance[k], "top_half")

RECURSIVE WrapperPitchEvents(_)
WrapperPitchEvents(event_list) ==
    IF Len(event_list) = 0 THEN <<>>
    ELSE LET event == Head(event_list) IN
         (IF "pitch_description" \in DOMAIN event
          THEN <<[type |-> DictGet(event, "pitch_type", "Unknown"),
                  description |-> DictGet(event, "pitch_description", "Unknown"),
                  result |-> DictGet(event, "pitch_description", "Unknown"),
                  speed |-> DictGet(event, "pitch_speed", None),
                  location |-> DictGet(event, "pitch_position", None)]>>
          ELSE <<>>) \o WrapperPitchEvents(Tail(event_list))

extract_plate_appearance_from_custom_format(appearance) ==
    [batter |-> PlayerName(DictGet(appearance, "batter", EmptyDict)),
     pitcher |-> PlayerName(DictGet(appearance, "pitcher", EmptyDict)),
     description |-> DictGet(appearance, "plate_appearance_description", "Unknown play"),
     summary |-> DictGet(appearance, "plate_appearance_summary", "?"),
     got_on_base |-> DictGet(appearance, "got_on_base", FALSE),
     runs_scored |-> IF "scoring_runners_list" \in DOMAIN appearance
                     THEN Len(appearance.scoring_runners_list) ELSE 0,
     rbis |-> IF "runners_batted_in_list" \in DOMAIN appearance
              THEN Len(appearance.runners_batted_in_list) ELSE 0,
     outs |-> DictGet(appearance, "inning_outs", 0),
     half |-> IF ReprHasTopHalf(appearance) THEN "top" ELSE "bottom",
     events |-> WrapperPitchEvents(DictGet(appearance, "event_list", <<>>))]

\* sum(1 for event in events if event.get('runs_scored', 0) > 0)
CountScoringEvents(events) ==
    Cardinality({i \in 1..Len(events) : DictGet(events[i], "runs_scored", 0) > 0})

WrapperInning(inning_data) ==
    LET top_events == MapSeq(extract_plate_appearance_from_custom_format,
                             DictGet(inning_data, "top_half_appearance_list", <<>>))
        bottom_events == MapSeq(extract_plate_appearance_from_custom_format,
                                DictGet(inning_data, "bottom_half_appearance_list", <<>>))
    IN [inning |-> DictGet(inning_data, "inning", 1),
        away_runs |-> CountScoringEvents(top_events),
        home_runs |-> CountScoringEvents(bottom_events),
        top_events |-> top_events,
        bottom_events |-> bottom_events]

\* A box-score row is a pair (player_info, stats); rows of another shape
\* are skipped.  lineup_order is given by lineup(i, kept) for the row at
\* index i when kept rows precede it.
RowOk(row) == Len(row) >= 2

RECURSIVE BatterRows(_, _, _, _)
BatterRows(rows, i, kept, byIndex) ==
    IF i > Len(rows) THEN <<>>
    ELSE IF RowOk(rows[i])
    THEN <<[name |-> PlayerName(rows[i][1]),
            at_bats |-> DictGet(rows[i][2], "AB", 0),
            hits |-> DictGet(rows[i][2], "H", 0),
            runs |-> DictGet(rows[i][2], "R", 0),
            rbis |-> DictGet(rows[i][2], "RBI", 0),
            average |-> FormatFixed3(DictGet(rows[i][1], "obp", 0)),
            position |-> "?",
            lineup_order |-> IF byIndex THEN i ELSE kept + 1]>>
         \o BatterRows(rows, i + 1, kept + 1, byIndex)
    ELSE BatterRows(rows, i + 1, kept, byIndex)

RECURSIVE PitcherRows(_, _)
PitcherRows(rows, i) ==
    IF i > Len(rows) THEN <<>>
    ELSE IF RowOk(rows[i])
    THEN <<[name |-> PlayerName(rows[i][1]),
            innings_pitched |-> DictGet(rows[i][2], "IP", 0),
            hits |-> DictGet(rows[i][2], "H", 0),
            runs |-> DictGet(rows[i][2], "R", 0),
            earned_runs |-> DictGet(rows[i][2], "ER", 0),
            walks |-> DictGet(rows[i][2], "BB", 0),
            strikeouts |-> DictGet(rows[i][2], "SO", 0),
            era |-> StrFloat(DictGet(rows[i][1], "era", 0))]>>
         \o PitcherRows(rows, i + 1)
    ELSE PitcherRows(rows, i + 1)

BoxBatters(game_data, byIndex) ==
    [away |-> BatterRows(DictGet(game_data, "away_batter_box_score_dict", <<>>), 1, 0, byIndex),
     home |-> BatterRows(DictGet(game_data, "home_batter_box_score_dict", <<>>), 1, 0, byIndex)]

BoxPitchers(game_data) ==
    [away |-> PitcherRows(DictGet(game_data, "away_pitcher_box_score_dict", <<>>), 1),
     home |-> PitcherRows(DictGet(game_data, "home_pitcher_box_score_dict", <<>>), 1)]

Unreadable == [unreadable |-> TRUE]

\* doc is the parsed content of the file, or Unreadable when open() or
\* json.load() raised.
load_game_data(doc) ==
    IF doc = Unreadable THEN None
    ELSE [game_id |-> "world_series_game7",
          date |-> "2017-11-01",
          away_team |-> [name |-> "Houston Astros", abbreviation |-> "HOU"],
          home_team |-> [name |-> "Los Angeles Dodgers", abbreviation |-> "LAD"],
          venue |-> "Dodger Stadium",
          status |-> "completed",
          innings |-> MapSeq(WrapperInning, DictGet(doc, "inning_list", <<>>)),
          batters |-> BoxBatters(doc, TRUE),
          pitchers |-> BoxPitchers(doc),
          events |-> <<>>,
          integration_status |-> "real_data_from_baseball_lib",
          note |-> "Real data extracted from Baseball library JSON format"]

(***************************************************************************)
(* baseball_integration_real.py                                            *)
(***************************************************************************)
ScheduleInnings == 9

RECURSIVE FindByPk(_, _)
FindByPk(games, pk) ==
    IF Len(games) = 0 THEN None
    ELSE IF GamePkOf(Head(games)) = pk THEN Head(games)
    ELSE FindByPk(Tail(games), pk)

EmptyInning(n) ==
    [inning |-> n, away_runs |-> 0, home_runs |-> 0,
     top_events |-> <<>>, bottom_events |-> <<>>]

get_mlb_game_details_from_schedule(game_pk, gid, date_str, away_code, home_code, resp) ==
    IF ~StrptimeOk(date_str) \/ resp = FetchError THEN None
    ELSE LET game_data == FindByPk(ScheduleGamesOf(resp), game_pk) IN
         IF ~Truthy(game_data) THEN None
         ELSE LET teams == DictGet(game_data, "teams", EmptyDict)
                  away_team == DictGet(teams, "away", EmptyDict)
                  home_team == DictGet(teams, "home", EmptyDict)
                  status == DictGet(game_data, "status", EmptyDict)
                  venue == DictGet(game_data, "venue", EmptyDict)
                  away_score == DictGet(away_team, "score", 0)
                  home_score == DictGet(home_team, "score", 0)
                  inning_list ==
                      [i \in 1..ScheduleInnings |->
                          IF i = ScheduleInnings
                          THEN [EmptyInning(i) EXCEPT !.away_runs = away_score,
                                                      !.home_runs = home_score]
                          ELSE EmptyInning(i)]
              IN [game_id |-> gid,
                  date |-> date_str,
                  away_team |-> [name |-> DictGet(DictGet(away_team, "team", EmptyDict),
                                                  "name", away_code \o " Team"),
                                 abbreviation |-> away_code],
                  home_team |-> [name |-> DictGet(DictGet(home_team, "team", EmptyDict),
                                                  "name", home_code \o " Team"),
                                 abbreviation |-> home_code],
                  venue |-> DictGet(venue, "name", home_code \o " Stadium"),
                  status |-> DictGet(status, "detailedState", "Unknown"),
                  innings |-> inning_list,
                  batters |-> [away |-> <<>>, home |-> <<>>],
                  pitchers |-> [away |-> <<>>, home |-> <<>>],
                  events |-> <<>>,
                  integration_status |-> "real_mlb_schedule_data",
                  note |-> "Real scores from MLB schedule API for " \o away_code
                           \o " @ " \o home_code \o " on " \o date_str,
                  total_away_runs |-> away_score,
                  total_home_runs |-> home_score]

\* The inline mock of get_detailed_game_data (real), lines 222-241.
RealMockData(gid, date_str, away_code, home_code) ==
    [game_id |-> gid,
     date |-> date_str,
     away_team |-> [name |-> away_code \o " Team", abbreviation |-> away_code],
     home_team |-> [name |-> home_code \o " Team", abbreviation |-> home_code],
     venue |-> home_code \o " Stadium",
     status |-> "completed",
     innings |-> <<>>,
     batters |-> [away |-> <<>>, home |-> <<>>],
     pitchers |-> [away |-> <<>>, home |-> <<>>],
     events |-> <<>>,
     integration_status |-> "fallback_mock_data",
     note |-> "Fallback mock data due to API unavailability"]

\* The except branch of get_detailed_game_data (real), lines 248-261.
RealErrorFallback(gid) ==
    [game_id |-> gid,
     date |-> "2025-09-14",
     away_team |-> [name |-> "Unknown Team", abbreviation |-> "UNK"],
     home_team |-> [name |-> "Unknown Team", abbreviation |-> "UNK"],
     venue |-> "Unknown Stadium",
     status |-> "completed",
     innings |-> <<>>,
     batters |-> [away |-> <<>>, home |-> <<>>],
     pitchers |-> [away |-> <<>>, home |-> <<>>],
     events |-> <<>>,
     integration_status |-> "error_fallback",
     note |-> "Error fallback data"]

(***************************************************************************)
(* baseball_integration_fixed.py                                           *)
(***************************************************************************)
\* A variant of the customization that keeps the box scores and drops the innings.
customize_game_data_DroppingInnings(template_data, date_str, away_code, home_code, game_number) ==
    [k \in DOMAIN template_data \cup {"game_id", "date", "away_team", "home_team"} |->
        CASE k = "game_id" -> FormatGameId(date_str, away_code, home_code, game_number)
          [] k = "date" -> date_str
          [] k = "away_team" -> [name |-> DictGet(team_names, away_code, away_code \o " Team"),
                                 abbreviation |-> away_code]
          [] k = "home_team" -> [name |-> DictGet(team_names, home_code, home_code \o " Team"),
                                 abbreviation |-> home_code]
          [] k = "venue" -> DictGet(venue_mapping, home_code, home_code \o " Stadium")
          [] k = "integration_status" -> "customized_template_data"
          [] k = "note" -> "Template data customized for " \o away_code \o " @ "
                           \o home_code \o " on " \o date_str
          [] k = "innings" -> <<>>
          [] OTHER -> template_data[k]]

customize_game_data(template_data, date_str, away_code, home_code, game_number) ==
    [k \in DOMAIN template_data \cup
            {"game_id", "date", "away_team", "home_team", "venue",
             "integration_status", "note"} |->
        CASE k = "game_id" -> FormatGameId(date_str, away_code, home_code, game_number)
          [] k = "date" -> date_str
          [] k = "away_team" -> [name |-> DictGet(team_names, away_code, away_code \o " Team"),
                                 abbreviation |-> away_code]
          [] k = "home_team" -> [name |-> DictGet(team_names, home_code, home_code \o " Team"),
                                 abbreviation |-> home_code]
          [] k = "venue" -> DictGet(venue_mapping, home_code, home_code \o " Stadium")
          [] k = "integration_status" -> "customized_template_data"
          [] k = "note" -> "Template data customized for " \o away_code \o " @ "
                           \o home_code \o " on " \o date_str
          [] OTHER -> template_data[k]]

LinescoreInning(i, inning) ==
    [inning |-> i,
     away_runs |-> DictGet(DictGet(inning, "away", EmptyDict), "runs", 0),
     home_runs |-> DictGet(DictGet(inning, "home", EmptyDict), "runs", 0),
     top_events |-> <<>>,
     bottom_events |-> <<>>]

AwayRunsOf(inning) == inning.away_runs

HomeRunsOf(inning) == inning.home_runs

\* feed is the live-feed document of the game, or FetchError.
get_mlb_game_details(game_pk, gid, date_str, away_code, home_code, feed) ==
    IF feed = FetchError THEN None
    ELSE LET game_data == DictGet(feed, "gameData", EmptyDict)
             live_data == DictGet(feed, "liveData", EmptyDict)
             teams == DictGet(game_data, "teams", EmptyDict)
             away_team_data == DictGet(teams, "away", EmptyDict)
             home_team_data == DictGet(teams, "home", EmptyDict)
             innings == DictGet(DictGet(live_data, "linescore", EmptyDict), "innings", <<>>)
             inning_list == [i \in 1..Len(innings) |-> LinescoreInning(i, innings[i])]
         IN [game_id |-> gid,
             date |-> date_str,
             away_team |-> [name |-> DictGet(away_team_data, "name", away_code \o " Team"),
                            abbreviation |-> away_code],
             home_team |-> [name |-> DictGet(home_team_data, "name", home_code \o " Team"),
                            abbreviation |-> home_code],
             venue |-> DictGet(DictGet(game_data, "venue", EmptyDict), "name", "Unknown Stadium"),
             status |-> DictGet(DictGet(game_data, "status", EmptyDict),
                                "detailedState", "Unknown"),
             innings |-> inning_list,
             batters |-> [away |-> <<>>, home |-> <<>>],
             pitchers |-> [away |-> <<>>, home |-> <<>>],
             events |-> <<>>,
             integration_status |-> "real_mlb_api_data",
             note |-> "Real data from MLB API for " \o away_code \o " @ "
                      \o home_code \o " on " \o date_str,
             total_away_runs |-> SumSeq(MapSeq(AwayRunsOf, inning_list)),
             total_home_runs |-> SumSeq(MapSeq(HomeRunsOf, inning_list))]

get_basic_mock_data(gid, date_str, away_code, home_code) ==
    [game_id |-> gid,
     date |-> date_str,
     away_team |-> [name |-> away_code \o " Team", abbreviation |-> away_code],
     home_team |-> [name |-> home_code \o " Team", abbreviation |-> home_code],
     venue |-> home_code \o " Stadium",
     status |-> "completed",
     innings |-> <<>>,
     batters |-> [away |-> <<>>, home |-> <<>>],
     pitchers |-> [away |-> <<>>, home |-> <<>>],
     events |-> <<>>,
     integration_status |-> "fallback_mock_data",
     note |-> "Fallback mock data due to API unavailability"]

\* file says whether the template file and the wrapper script exist and
\* what the file holds.
TemplateLoads(file) == file.exists /\ file.wrapper /\ Truthy(load_game_data(file.doc))

get_template_data_fallback(gid, date_str, away_code, home_code, game_number, file) ==
    LET data == IF file.exists /\ file.wrapper THEN load_game_data(file.doc) ELSE None IN
    IF Truthy(data)
    THEN customize_game_data(data, date_str, away_code, home_code, game_number)
    ELSE get_basic_mock_data(gid, date_str, away_code, home_code)

\* A controller that never takes the remote data for usable.
HasDetailedData_Never(detailed_data) == FALSE

\* if detailed_data: (get_detailed_game_data, line 384)
HasDetailedData(detailed_data) == Truthy(detailed_data)

(***************************************************************************)
(* baseball_integration.py: the template file, else the enhanced mock data *)
(* written out in the source.  Floats are written as their text, names    *)
(* without their accents.                                                  *)
(***************************************************************************)
MockPitch(type, description, res) ==
    [type |-> type, description |-> description, result |-> res]

MockAppearance(batter, pitcher, description, summary, on_base, runs, rbis, outs, half, events) ==
    [batter |-> batter, pitcher |-> pitcher, description |-> description,
     summary |-> summary, got_on_base |-> on_base, runs_scored |-> runs,
     rbis |-> rbis, outs |-> outs, half |-> half, events |-> events]

MockBatter(name, at_bats, hits, runs, rbis, average, position, lineup_order) ==
    [name |-> name, at_bats |-> at_bats, hits |-> hits, runs |-> runs, rbis |-> rbis,
     average |-> average, position |-> position, lineup_order |-> lineup_order]

MockInnings ==
    <<[inning |-> 1, away_runs |-> 2, home_runs |-> 0,
       top_events |->
           <<MockAppearance("Yandy Diaz", "Justin Steele", "Single to center field", "1B",
                            TRUE, 0, 0, 0, "top",
                            <<MockPitch("Fastball", "Called Strike", "0-1"),
                              MockPitch("Slider", "Ball", "1-1"),
                              MockPitch("Fastball", "In play, single", "1B")>>),
             MockAppearance("Randy Arozarena", "Justin Steele", "Home run to left field",
                            "HR", TRUE, 1, 2, 0, "top",
                            <<MockPitch("Fastball", "Ball", "1-0"),
                              MockPitch("Curveball", "Home run", "HR")>>),
             MockAppearance("Isaac Paredes", "Justin Steele", "Strikeout swinging", "K",
                            FALSE, 0, 0, 1, "top",
                            <<MockPitch("Fastball", "Called Strike", "0-1"),
                              MockPitch("Slider", "Swinging Strike", "0-2"),
                              MockPitch("Fastball", "Swinging Strike", "K")>>)>>,
       bottom_events |->
           <<MockAppearance("Nico Hoerner", "Tyler Glasnow", "Ground out to shortstop",
                            "6-3", FALSE, 0, 0, 1, "bottom",
                            <<MockPitch("Fastball", "Ball", "1-0"),
                              MockPitch("Curveball", "Ground out", "6-3")>>)>>],
      [inning |-> 2, away_runs |-> 0, home_runs |-> 1,
       top_events |-> <<>>,
       bottom_events |->
           <<MockAppearance("Cody Bellinger", "Tyler Glasnow", "Home run to right field",
                            "HR", TRUE, 1, 1, 0, "bottom",
                            <<MockPitch("Fastball", "Home run", "HR")>>)>>]>>

MockBatters ==
    [away |-> <<MockBatter("Yandy Diaz", 4, 2, 1, 0, "0.285", "1B", 1),
                MockBatter("Randy Arozarena", 4, 1, 1, 2, "0.254", "LF", 2),
                MockBatter("Isaac Paredes", 4, 1, 0, 0, "0.267", "3B", 3),
                MockBatter("Harold Ramirez", 3, 1, 0, 0, "0.298", "DH", 4),
                MockBatter("Josh Lowe", 3, 0, 0, 0, "0.292", "RF", 5)>>,
     home |-> <<MockBatter("Nico Hoerner", 4, 1, 0, 0, "0.283", "2B", 1),
                MockBatter("Cody Bellinger", 4, 2, 1, 1, "0.307", "1B", 2),
                MockBatter("Seiya Suzuki", 4, 1, 0, 0, "0.285", "RF", 3),
                MockBatter("Christopher Morel", 3, 0, 0, 0, "0.247", "3B", 4),
                MockBatter("Ian Happ", 3, 1, 0, 0, "0.248", "LF", 5)>>]

MockPitchers ==
    [away |-> <<[name |-> "Tyler Glasnow", innings_pitched |-> "6.0", hits |-> 5,
                 runs |-> 3, earned_runs |-> 3, walks |-> 2, strikeouts |-> 7,
                 era |-> "3.53"]>>,
     home |-> <<[name |-> "Justin Steele", innings_pitched |-> "5.2", hits |-> 6,
                 runs |-> 4, earned_runs |-> 4, walks |-> 1, strikeouts |-> 6,
                 era |-> "3.06"]>>]

\* mock_data: of the request only game_id enters it.
EnhancedMockData(gid) ==
    [game_id |-> gid,
     date |-> "2025-09-14",
     away_team |-> [name |-> "Tampa Bay Rays", abbreviation |-> "TB"],
     home_team |-> [name |-> "Chicago Cubs", abbreviation |-> "CHC"],
     venue |-> "Wrigley Field",
     status |-> "completed",
     innings |-> MockInnings,
     batters |-> MockBatters,
     pitchers |-> MockPitchers,
     events |-> <<>>,
     integration_status |-> "enhanced_mock_data",
     note |-> "Enhanced mock data with realistic player names, pitch sequences, and traditional scorecard information. Ready for Baseball library integration."]

(***************************************************************************)
(* baseball_json_integration.py                                            *)
(***************************************************************************)
JsonPitchEvent(event) ==
    [type |-> DictGet(event, "pitch_type", "Unknown"),
     description |-> DictGet(event, "pitch_description", "Unknown"),
     result |-> DictGet(event, "pitch_description", "Unknown"),
     speed |-> DictGet(event, "pitch_speed", None),
     location |-> DictGet(event, "pitch_position", None),
     datetime |-> DictGet(event, "pitch_datetime", None)]

extract_plate_appearance_data(appearance, half) ==
    LET batter_info == DictGet(appearance, "batter", EmptyDict)
        pitcher_info == DictGet(appearance, "pitcher", EmptyDict)
        scoring_runners == DictGet(appearance, "scoring_runners_list", <<>>)
        runners_batted_in == DictGet(appearance, "runners_batted_in_list", <<>>)
    IN [batter |-> PlayerName(batter_info),
        batter_number |-> DictGet(batter_info, "number", ""),
        pitcher |-> PlayerName(pitcher_info),
        pitcher_number |-> DictGet(pitcher_info, "number", ""),
        description |-> DictGet(appearance, "plate_appearance_description", "Unknown play"),
        summary |-> DictGet(appearance, "plate_appearance_summary", "?"),
        scorecard_summary |-> DictGet(appearance, "scorecard_summary", "?"),
        got_on_base |-> DictGet(appearance, "got_on_base", FALSE),
        runs_scored |-> Len(scoring_runners),
        rbis |-> Len(runners_batted_in),
        outs |-> DictGet(appearance, "inning_outs", 0),
        half |-> half,
        hit_location |-> DictGet(appearance, "hit_location", None),
        error_str |-> DictGet(appearance, "error_str", None),
        start_datetime |-> DictGet(appearance, "start_datetime", None),
        end_datetime |-> DictGet(appearance, "end_datetime", None),
        events |-> MapSeq(JsonPitchEvent, DictGet(appearance, "event_list", <<>>)),
        scoring_runners |-> MapSeq(PlayerName, scoring_runners),
        runners_batted_in |-> MapSeq(PlayerName, runners_batted_in),
        out_runners |-> DictGet(appearance, "out_runners_list", <<>>)]

TopAppearance(appearance) == extract_plate_appearance_data(appearance, "top")

BottomAppearance(appearance) == extract_plate_appearance_data(appearance, "bottom")

\* The runs an appearance adds to its half inning (lines 395-402).
ScoringRunners(appearance) ==
    IF "scoring_runners_list" \in DOMAIN appearance
    THEN Len(appearance.scoring_runners_list) ELSE 0

LibraryInning(i, inning_info) ==
    LET top == DictGet(inning_info, "top_half_appearance_list", <<>>)
        bottom == DictGet(inning_info, "bottom_half_appearance_list", <<>>)
    IN [inning |-> i,
        away_runs |-> SumSeq(MapSeq(ScoringRunners, top)),
        home_runs |-> SumSeq(MapSeq(ScoringRunners, bottom)),
        top_events |-> MapSeq(TopAppearance, top),
        bottom_events |-> MapSeq(BottomAppearance, bottom)]

(***************************************************************************)
(* get_mlb_api_supplementary_data.  api holds the answer of every           *)
(* sub-fetch: [kind |-> "raises"] when requests.get raised (connection      *)
(* error, timeout), [kind |-> "status"] for a status other than 200, and    *)
(* [kind |-> "ok", body |-> b] for a 200 response with JSON body b.          *)
(***************************************************************************)
LowerLetters == "abcdefghijklmnopqrstuvwxyz"

UpperLetters == "ABCDEFGHIJKLMNOPQRSTUVWXYZ"

UpperChar(c) ==
    IF \E i \in 1..Len(LowerLetters) : SubSeq(LowerLetters, i, i) = c
    THEN LET i == CHOOSE i \in 1..Len(LowerLetters) : SubSeq(LowerLetters, i, i) = c
         IN SubSeq(UpperLetters, i, i)
    ELSE c

\* str.upper()
RECURSIVE Upper(_)
Upper(s) == IF s = "" THEN "" ELSE UpperChar(SubSeq(s, 1, 1)) \o Upper(Tail(s))

OptId(d) == IF "id" \in DOMAIN d THEN Box(d.id) ELSE None

\* The loop over teams_data['teams'] (lines 52-61): ids is the pair of
\* away_team_id and home_team_id found so far.
RECURSIVE FindTeamIds(_, _, _, _)
FindTeamIds(teams, away_code, home_code, ids) ==
    IF Len(teams) = 0 THEN ids
    ELSE LET team == Head(teams)
             abbr == Upper(DictGet(team, "abbreviation", ""))
             next == IF OptId(DictGet(team, "sport", EmptyDict)) # Box(1) THEN ids
                     ELSE IF abbr = Upper(away_code)
                     THEN [ids EXCEPT !.away = OptId(team)]
                     ELSE IF abbr = Upper(home_code)
                     THEN [ids EXCEPT !.home = OptId(team)]
                     ELSE ids
         IN FindTeamIds(Tail(teams), away_code, home_code, next)

ScheduleGameMatches(game, ids) ==
    LET teams == DictGet(game, "teams", EmptyDict)
        away_team == DictGet(DictGet(teams, "away", EmptyDict), "team", EmptyDict)
        home_team == DictGet(DictGet(teams, "home", EmptyDict), "team", EmptyDict)
    IN OptId(away_team) = ids.away /\ OptId(home_team) = ids.home

RECURSIVE FirstMatchingGame(_, _)
FirstMatchingGame(games, ids) ==
    IF Len(games) = 0 THEN None
    ELSE IF ScheduleGameMatches(Head(games), ids) THEN Head(games)
    ELSE FirstMatchingGame(Tail(games), ids)

\* The loops of lines 87-98: the break leaves only the inner loop, so a
\* match in a later date group replaces an earlier one.
RECURSIVE FindScheduleGame(_, _, _)
FindScheduleGame(dates, ids, game_data) ==
    IF Len(dates) = 0 THEN game_data
    ELSE LET found == FirstMatchingGame(DictGet(Head(dates), "games", <<>>), ids)
         IN FindScheduleGame(Tail(dates), ids, IF found # None THEN found ELSE game_data)

\* entry.split(':', 1): the text before the first ':' and the text after it.
RECURSIVE BeforeColon(_)
BeforeColon(s) ==
    IF s = "" \/ SubSeq(s, 1, 1) = ":" THEN "" ELSE SubSeq(s, 1, 1) \o BeforeColon(Tail(s))

AfterColon(s) == SubSeq(s, Len(BeforeColon(s)) + 2, Len(s))

RECURSIVE UmpireEntries(_)
UmpireEntries(entries) ==
    IF Len(entries) = 0 THEN <<>>
    ELSE LET e == Strip(Head(entries)) IN
         (IF Contains(e, ":")
          THEN <<[name |-> Strip(AfterColon(e)), position |-> Strip(BeforeColon(e)),
                  id |-> None]>>
          ELSE <<>>) \o UmpireEntries(Tail(entries))

\* Lines 177-186: the text is cut at every period.
ParseUmpires(umpires_text) == UmpireEntries(Split(umpires_text, "."))

\* First item of an info list with the given label, None when there is none.
RECURSIVE InfoItem(_, _)
InfoItem(info, label) ==
    IF Len(info) = 0 THEN None
    ELSE IF "label" \in DOMAIN Head(info) /\ Head(info).label = label THEN Head(info)
    ELSE InfoItem(Tail(info), label)

TwoDigits(s, lo, hi) == Len(s) = 2 /\ AllDigits(s) /\ DigitsValue(s, 0) \in lo..hi

\* datetime.fromisoformat(text.replace('Z', '+00:00')) succeeds, for texts of
\* the form YYYY-MM-DDTHH:MM:SSZ; any other text the API is taken to send
\* here is no timestamp.
IsoOk(text) ==
    /\ Len(text) = 20
    /\ StrptimeOk(SubSeq(text, 1, 10))
    /\ SubSeq(text, 5, 5) = "-" /\ SubSeq(text, 8, 8) = "-"
    /\ SubSeq(text, 11, 11) = "T" /\ SubSeq(text, 20, 20) = "Z"
    /\ SubSeq(text, 14, 14) = ":" /\ SubSeq(text, 17, 17) = ":"
    /\ TwoDigits(SubSeq(text, 12, 13), 0, 23)
    /\ TwoDigits(SubSeq(text, 15, 16), 0, 59)
    /\ TwoDigits(SubSeq(text, 18, 19), 0, 59)

\* strftime('%I:%M %p')
Clock12(text) ==
    LET h == DigitsValue(SubSeq(text, 12, 13), 0)
        h12 == IF h % 12 = 0 THEN 12 ELSE h % 12
    IN Pad2(h12) \o ":" \o SubSeq(text, 15, 16) \o " " \o (IF h < 12 THEN "AM" ELSE "PM")

\* str.lstrip('0')
RECURSIVE LStripZeros(_)
LStripZeros(s) == IF s # "" /\ SubSeq(s, 1, 1) = "0" THEN LStripZeros(Tail(s)) ELSE s

\* Lines 222-227: Weather and Wind items of the feed's top-level info list,
\* a later item replacing an earlier one.
RECURSIVE InfoWeather(_, _)
InfoWeather(info_section, sd) ==
    IF Len(info_section) = 0 THEN sd
    ELSE LET item == Head(info_section)
             label == DictGet(item, "label", "")
             next == IF label = "Weather"
                     THEN [sd EXCEPT !.weather = DictGet(item, "value", "TBD")]
                     ELSE IF label = "Wind"
                     THEN [sd EXCEPT !.wind = DictGet(item, "value", "TBD")]
                     ELSE sd
         IN InfoWeather(Tail(info_section), next)

\* Lines 110-126: officials of the schedule entry whose type is Umpire.
RECURSIVE OfficialUmpires(_)
OfficialUmpires(officials) ==
    IF Len(officials) = 0 THEN <<>>
    ELSE LET umpire == Head(officials) IN
         (IF DictGet(umpire, "officialType", "") = "Umpire"
          THEN <<[name |-> Strip(DictGet(umpire, "firstName", "") \o " "
                                 \o DictGet(umpire, "lastName", "")),
                  position |-> DictGet(umpire, "position", "Unknown")]>>
          ELSE <<>>) \o OfficialUmpires(Tail(officials))

\* Lines 140-151: the manager of a coaches response, kept when there is none.
RECURSIVE ManagerOf(_, _)
ManagerOf(coaches, kept) ==
    IF Len(coaches) = 0 THEN kept
    ELSE IF DictGet(Head(coaches), "job", "") = "Manager"
    THEN DictGet(DictGet(Head(coaches), "person", EmptyDict), "fullName", "")
    ELSE ManagerOf(Tail(coaches), kept)

CoachesManager(resp) ==
    IF resp.kind = "ok" THEN ManagerOf(DictGet(resp.body, "roster", <<>>), None) ELSE None

\* Lines 157-262: the fields taken from a live feed document.  The import of
\* line 263 makes datetime a local name of the whole function, so its use at
\* line 212 raises and the bare except of line 214 stores 'TBD'.  A wind
\* entry of gameData.weather is taken to be a text (line 247).
FeedFields(sd, game_feed_data, game_data) ==
    LET live_data == DictGet(game_feed_data, "liveData", EmptyDict)
        info_data == DictGet(DictGet(live_data, "boxscore", EmptyDict), "info", <<>>)
        umpires_item == InfoItem(info_data, "Umpires")
        umpires == IF umpires_item # None
                   THEN ParseUmpires(DictGet(umpires_item, "value", "")) ELSE <<>>
        sd1 == IF umpires # <<>> THEN [sd EXCEPT !.umpires = umpires] ELSE sd
        first_pitch == InfoItem(info_data, "First pitch")
        game_date == DictGet(game_data, "gameDate", "")
        sd2 == IF first_pitch # None
               THEN [sd1 EXCEPT !.start_time = DictGet(first_pitch, "value", "")]
               ELSE IF game_date # "" THEN [sd1 EXCEPT !.start_time = "TBD"]
               ELSE sd1
        duration == InfoItem(info_data, "T")
        sd3 == IF duration # None
               THEN [sd2 EXCEPT !.end_time = "Duration: " \o DictGet(duration, "value", "")]
               ELSE sd2
        sd4 == InfoWeather(DictGet(game_feed_data, "info", <<>>), sd3)
        game_data_feed == DictGet(game_feed_data, "gameData", EmptyDict)
        weather_data == DictGet(game_data_feed, "weather", EmptyDict)
        wind_data == DictGet(weather_data, "wind", "")
        sd5 == IF weather_data = EmptyDict THEN sd4
               ELSE [sd4 EXCEPT !.weather = DictGet(weather_data, "condition", "TBD"),
                                !.wind = IF wind_data # "" THEN wind_data ELSE sd4.wind]
        all_plays == DictGet(DictGet(live_data, "plays", EmptyDict), "allPlays", <<>>)
        end_time == IF Len(all_plays) = 0 THEN ""
                    ELSE DictGet(DictGet(all_plays[Len(all_plays)], "about", EmptyDict),
                                 "endTime", "")
    IN IF DictGet(DictGet(game_data_feed, "game", EmptyDict), "status", "") = "Final"
          /\ end_time # "" /\ IsoOk(end_time)
       THEN [sd5 EXCEPT !.end_time = LStripZeros(Clock12(end_time))]
       ELSE sd5

\* next(text of the first asset whose type code is 'J', '')
RECURSIVE Jersey(_)
Jersey(assets) ==
    IF Len(assets) = 0 THEN ""
    ELSE IF DictGet(DictGet(Head(assets), "uniformAssetType", EmptyDict),
                    "uniformAssetTypeCode", "") = "J"
    THEN DictGet(Head(assets), "uniformAssetText", "")
    ELSE Jersey(Tail(assets))

\* Lines 267-287.
UniformFields(sd, uniforms_data) ==
    LET uniforms == DictGet(uniforms_data, "uniforms", <<>>) IN
    IF Len(uniforms) = 0 THEN sd
    ELSE [uniforms |->
              [away |-> Jersey(DictGet(DictGet(uniforms[1], "away", EmptyDict),
                                       "uniformAssets", <<>>)),
               home |-> Jersey(DictGet(DictGet(uniforms[1], "home", EmptyDict),
                                       "uniformAssets", <<>>))]] @@ sd

\* Lines 289-298.
ScheduleWeather(sd, game_data) ==
    LET weather == DictGet(game_data, "weather", EmptyDict) IN
    IF weather = EmptyDict THEN sd
    ELSE [sd EXCEPT !.weather = [condition |-> DictGet(weather, "condition", "Unknown"),
                                 temp |-> DictGet(weather, "temp", "Unknown"),
                                 wind |-> DictGet(weather, "wind", "Unknown")],
                    !.wind = DictGet(weather, "wind", "Unknown")]

Raises(resp) == resp.kind = "raises"

\* Lines 25-315.  An exception anywhere in the body is caught at line 311 and
\* the function returns {}.
get_mlb_api_supplementary_data(date_str, away_code, home_code, api) ==
    IF ~api.requests_available \/ api.teams.kind # "ok" THEN EmptyDict
    ELSE LET ids == FindTeamIds(DictGet(api.teams.body, "teams", <<>>), away_code,
                                home_code, [away |-> None, home |-> None])
    IN IF ~BoxTruthy(ids.away) \/ ~BoxTruthy(ids.home) THEN EmptyDict
       ELSE IF api.schedule.kind # "ok" THEN EmptyDict
       ELSE LET game_data == FindScheduleGame(DictGet(api.schedule.body, "dates", <<>>),
                                              ids, None)
    IN IF game_data = None \/ game_data = EmptyDict THEN EmptyDict
       ELSE IF Raises(api.coaches_away) \/ Raises(api.coaches_home) THEN EmptyDict
       ELSE LET sd0 == [umpires |-> OfficialUmpires(DictGet(game_data, "officials", <<>>)),
                        managers |-> [away |-> CoachesManager(api.coaches_away),
                                      home |-> CoachesManager(api.coaches_home)],
                        start_time |-> None, end_time |-> None,
                        weather |-> None, wind |-> None,
                        venue |-> DictGet(DictGet(game_data, "venue", EmptyDict), "name",
                                          "Unknown Stadium")]
                game_pk == DictGet(game_data, "gamePk", 0)
    IN IF game_pk = 0 THEN ScheduleWeather(sd0, game_data)
       ELSE IF Raises(api.feed) \/ Raises(api.uniforms) THEN EmptyDict
       ELSE LET sd1 == IF api.feed.kind = "ok"
                       THEN FeedFields(sd0, api.feed.body, game_data) ELSE sd0
                sd2 == IF api.uniforms.kind = "ok"
                       THEN UniformFields(sd1, api.uniforms.body) ELSE sd1
            IN ScheduleWeather(sd2, game_data)

\* The supplementary block merged into a summary (lines 537-543, 831-837).
SupplementaryBlock(mlb_supplementary_data) ==
    LET d == mlb_supplementary_data IN
    [umpires |-> IF Truthy(d) THEN DictGet(d, "umpires", <<>>) ELSE <<>>,
     managers |-> IF Truthy(d) THEN DictGet(d, "managers", [away |-> None, home |-> None])
                  ELSE [away |-> None, home |-> None],
     start_time |-> IF Truthy(d) THEN DictGet(d, "start_time", "TBD") ELSE "TBD",
     end_time |-> IF Truthy(d) THEN DictGet(d, "end_time", "TBD") ELSE "TBD",
     weather |-> IF Truthy(d) THEN DictGet(d, "weather", "TBD") ELSE "TBD",
     wind |-> IF Truthy(d) THEN DictGet(d, "wind", "TBD") ELSE "TBD",
     uniforms |-> IF Truthy(d) THEN DictGet(d, "uniforms", [away |-> "TBD", home |-> "TBD"])
                  ELSE [away |-> "TBD", home |-> "TBD"]]

\* A variant of the merge that adds the fetched umpires to those a summary has.
MergeSupplementary_Appending(summary, mlb_supplementary_data) ==
    [venue |-> IF Truthy(mlb_supplementary_data)
               THEN DictGet(mlb_supplementary_data, "venue", summary.venue)
               ELSE summary.venue,
     umpires |-> DictGet(summary, "umpires", <<>>)
                 \o SupplementaryBlock(mlb_supplementary_data).umpires]
    @@ SupplementaryBlock(mlb_supplementary_data) @@ summary

\* A variant of the merge that also marks the summary as enriched.
MergeSupplementary_Overwriting(summary, mlb_supplementary_data) ==
    [venue |-> IF Truthy(mlb_supplementary_data)
               THEN DictGet(mlb_supplementary_data, "venue", summary.venue)
               ELSE summary.venue,
     integration_status |-> IF Truthy(mlb_supplementary_data) THEN "enriched"
                            ELSE summary.integration_status]
    @@ SupplementaryBlock(mlb_supplementary_data) @@ summary

\* The supplementary data laid over a summary (lines 515, 537-543, 813,
\* 831-837): its venue replaces the summary's and the block is written anew.
MergeSupplementary(summary, mlb_supplementary_data) ==
    [venue |-> IF Truthy(mlb_supplementary_data)
               THEN DictGet(mlb_supplementary_data, "venue", summary.venue)
               ELSE summary.venue]
    @@ SupplementaryBlock(mlb_supplementary_data) @@ summary

\* doc is what json.loads(game.json()) gives, or Unreadable when the call
\* or the extraction raises.
extract_detailed_data_from_baseball_library(doc, gid, date_str, away_code, home_code, mlb_supplementary_data) ==
    IF doc = Unreadable THEN None
    ELSE LET raw == DictGet(doc, "inning_list", <<>>)
             inning_list == [i \in 1..Len(raw) |-> LibraryInning(i, raw[i])]
             venue == DictGet(doc, "venue", home_code \o " Stadium")
         IN MergeSupplementary(
            [game_id |-> gid,
             date |-> date_str,
             away_team |-> [name |-> DictGet(DictGet(doc, "away_team", EmptyDict), "name",
                                             away_code \o " Team"),
                            abbreviation |-> away_code],
             home_team |-> [name |-> DictGet(DictGet(doc, "home_team", EmptyDict), "name",
                                             home_code \o " Team"),
                            abbreviation |-> home_code],
             venue |-> venue,
             status |-> "completed",
             innings |-> inning_list,
             batters |-> BoxBatters(doc, FALSE),
             pitchers |-> BoxPitchers(doc),
             events |-> <<>>,
             integration_status |-> "real_baseball_library_data",
             note |-> "Real data from baseball library for " \o away_code \o " @ "
                      \o home_code \o " on " \o date_str,
             total_away_runs |-> SumSeq(MapSeq(AwayRunsOf, inning_list)),
             total_home_runs |-> SumSeq(MapSeq(HomeRunsOf, inning_list))],
            mlb_supplementary_data)

\* First element of the half-inning stats, 0 when the list is empty.
StatsRuns(inning_info, key) ==
    LET stats == DictGet(inning_info, key, <<0, 0, 0, 0, 0, 0, 0, 0>>) IN
    IF Len(stats) > 0 THEN stats[1] ELSE 0

JsonInning(inning_info) ==
    [inning |-> DictGet(inning_info, "inning", 1),
     away_runs |-> StatsRuns(inning_info, "top_half_inning_stats"),
     home_runs |-> StatsRuns(inning_info, "bottom_half_inning_stats"),
     top_events |-> MapSeq(TopAppearance,
                           DictGet(inning_info, "top_half_appearance_list", <<>>)),
     bottom_events |-> MapSeq(TopAppearance,
                              DictGet(inning_info, "bottom_half_appearance_list", <<>>))]

\* Keeps the first record of every inning number (lines 644-653).
RECURSIVE DedupInnings(_, _)
DedupInnings(raw, processed_innings) ==
    IF Len(raw) = 0 THEN <<>>
    ELSE LET inning_num == DictGet(Head(raw), "inning", 1) IN
         IF inning_num \in processed_innings
         THEN DedupInnings(Tail(raw), processed_innings)
         ELSE <<Head(raw)>> \o DedupInnings(Tail(raw), processed_innings \cup {inning_num})

extract_detailed_data_from_json(doc, gid, date_str, away_code, home_code) ==
    IF doc = Unreadable THEN None
    ELSE LET inning_list == MapSeq(JsonInning,
                                   DedupInnings(DictGet(doc, "inning_list", <<>>), {}))
         IN [game_id |-> gid,
             date |-> date_str,
             away_team |-> [name |-> "Houston Astros", abbreviation |-> away_code],
             home_team |-> [name |-> "Los Angeles Dodgers", abbreviation |-> home_code],
             venue |-> "Dodger Stadium",
             status |-> "completed",
             innings |-> inning_list,
             batters |-> BoxBatters(doc, FALSE),
             pitchers |-> BoxPitchers(doc),
             events |-> <<>>,
             integration_status |-> "real_json_data",
             note |-> "Real detailed data from JSON file for " \o away_code \o " @ "
                      \o home_code \o " on " \o date_str,
             total_away_runs |-> SumSeq(MapSeq(AwayRunsOf, inning_list)),
             total_home_runs |-> SumSeq(MapSeq(HomeRunsOf, inning_list))]

JsonFallbackData(gid, date_str, away_code, home_code, mlb_supplementary_data) ==
    MergeSupplementary(
    [game_id |-> gid,
     date |-> date_str,
     away_team |-> [name |-> away_code \o " Team", abbreviation |-> away_code],
     home_team |-> [name |-> home_code \o " Team", abbreviation |-> home_code],
     venue |-> home_code \o " Stadium",
     status |-> "completed",
     innings |-> <<>>,
     batters |-> [away |-> <<>>, home |-> <<>>],
     pitchers |-> [away |-> <<>>, home |-> <<>>],
     events |-> <<>>,
     integration_status |-> "fallback_data",
     note |-> "Fallback data due to JSON parsing failure"],
    mlb_supplementary_data)

InvalidIdPayload == [error |-> "Invalid game ID format", success |-> FALSE]

(***************************************************************************)
(* baseball_bridge.py                                                      *)
(***************************************************************************)
BridgeUsagePayload ==
    [error |-> "Usage: python baseball_bridge.py <command> <args>", success |-> FALSE]

BridgeImportPayload == [error |-> "Failed to import baseball library", success |-> FALSE]

\* The prologue of get_game_details: exactly six parts, the last an integer.
BridgeParses(gid) ==
    LET parts == Split(gid, "-") IN Len(parts) = 6 /\ IsIntLiteral(parts[6])

\* The exception text that follows the prefix of the message is left out.
BridgeErrorPayload(gid) == [error |-> "Error fetching game " \o gid, success |-> FALSE]

\* A variant of get_game_details without the test of the game for None.
get_game_details_NoGameTest(gid, lib) ==
    IF ~BridgeParses(gid) \/ lib.kind = "raises" THEN BridgeErrorPayload(gid)
    ELSE IF lib.kind = "game" /\ lib.doc = Unreadable THEN BridgeErrorPayload(gid)
    ELSE [game_id |-> gid, game_data |-> DictGet(lib, "doc", None), svg_content |-> "<svg/>",
          success |-> TRUE]

\* lib is what baseball.get_game_from_url did; a game whose get_svg_str or
\* json raises is one with an unreadable document.
get_game_details(gid, lib) ==
    IF ~BridgeParses(gid) \/ lib.kind = "raises" THEN BridgeErrorPayload(gid)
    ELSE IF lib.kind = "none"
    THEN [error |-> "Game not found or no data available", success |-> FALSE]
    ELSE IF lib.doc = Unreadable THEN BridgeErrorPayload(gid)
    ELSE [game_id |-> gid, game_data |-> lib.doc, svg_content |-> "<svg/>",
          success |-> TRUE]

BridgeSvgErrorPayload(gid) == [error |-> "Error fetching game SVG " \o gid, success |-> FALSE]

\* get_game_svg reads only the drawing of the game: svg_ok says whether
\* game.get_svg_str() returned.
get_game_svg(gid, lib, svg_ok) ==
    IF ~BridgeParses(gid) \/ lib.kind = "raises" THEN BridgeSvgErrorPayload(gid)
    ELSE IF lib.kind = "none" THEN [error |-> "Game not found", success |-> FALSE]
    ELSE IF ~svg_ok THEN BridgeSvgErrorPayload(gid)
    ELSE [svg_content |-> "<svg/>", success |-> TRUE]

(***************************************************************************)
(* baseball_lib_integration.py                                             *)
(***************************************************************************)
LibFallbackData(gid, date_str, away_code, home_code) ==
    [game_id |-> gid,
     date |-> date_str,
     away_team |-> [name |-> away_code \o " Team", abbreviation |-> away_code],
     home_team |-> [name |-> home_code \o " Team", abbreviation |-> home_code],
     venue |-> home_code \o " Stadium",
     status |-> "completed",
     innings |-> <<>>,
     batters |-> [away |-> <<>>, home |-> <<>>],
     pitchers |-> [away |-> <<>>, home |-> <<>>],
     events |-> <<>>,
     integration_status |-> "fallback_data",
     note |-> "Fallback data due to Baseball library unavailability"]

\* An attribute of an object: hasattr(o, a) is a \in DOMAIN o.
Attr(o, a, default) == IF a \in DOMAIN o THEN o[a] ELSE default

LibPitch(pitch) ==
    [type |-> Attr(pitch, "pitch_type", "Unknown"),
     description |-> Attr(pitch, "description", "Unknown"),
     result |-> Attr(pitch, "result", "Unknown"),
     speed |-> Attr(pitch, "speed", None),
     location |-> IF {"x", "y"} \subseteq DOMAIN pitch THEN <<pitch.x, pitch.y>> ELSE None]

LibAppearance(pa) ==
    [batter |-> Attr(pa.batter, "name", "Unknown"),
     pitcher |-> Attr(pa.pitcher, "name", "Unknown"),
     description |-> Attr(pa, "description", "Unknown play"),
     summary |-> Attr(pa, "result", "?"),
     got_on_base |-> Attr(pa, "got_on_base", FALSE),
     runs_scored |-> Attr(pa, "runs_scored", 0),
     rbis |-> Attr(pa, "rbis", 0),
     outs |-> Attr(pa, "outs", 0),
     half |-> IF pa.half_inning = 0 THEN "top" ELSE "bottom",
     events |-> MapSeq(LibPitch, pa.pitches)]

RECURSIVE LibHalf(_, _)
LibHalf(pas, top) ==
    IF Len(pas) = 0 THEN <<>>
    ELSE (IF (Head(pas).half_inning = 0) = top THEN <<LibAppearance(Head(pas))>> ELSE <<>>)
         \o LibHalf(Tail(pas), top)

RECURSIVE LibHalfRuns(_, _)
LibHalfRuns(pas, half) ==
    IF Len(pas) = 0 THEN 0
    ELSE (IF Head(pas).half_inning = half /\ "runs_scored" \in DOMAIN Head(pas)
          THEN Head(pas).runs_scored ELSE 0)
         + LibHalfRuns(Tail(pas), half)

LibInning(i, inning) ==
    [inning |-> i,
     away_runs |-> LibHalfRuns(inning.plate_appearances, 0),
     home_runs |-> LibHalfRuns(inning.plate_appearances, 1),
     top_events |-> LibHalf(inning.plate_appearances, TRUE),
     bottom_events |-> LibHalf(inning.plate_appearances, FALSE)]

\* Players with at_bats > 0; batting_average is carried in thousandths.
RECURSIVE LibBatters(_)
LibBatters(players) ==
    IF Len(players) = 0 THEN <<>>
    ELSE LET player == Head(players) IN
         (IF "at_bats" \in DOMAIN player /\ player.at_bats > 0
          THEN <<[name |-> Attr(player, "name", "Unknown"),
                  at_bats |-> Attr(player, "at_bats", 0),
                  hits |-> Attr(player, "hits", 0),
                  runs |-> Attr(player, "runs", 0),
                  rbis |-> Attr(player, "rbis", 0),
                  average |-> IF "batting_average" \in DOMAIN player
                              THEN FormatFixed3(player.batting_average) ELSE "0.000",
                  position |-> Attr(player, "position", "?"),
                  lineup_order |-> Attr(player, "lineup_order", 0)]>>
          ELSE <<>>) \o LibBatters(Tail(players))

\* Players with innings_pitched > 0; era is carried in hundredths.
RECURSIVE LibPitchers(_)
LibPitchers(players) ==
    IF Len(players) = 0 THEN <<>>
    ELSE LET player == Head(players) IN
         (IF "innings_pitched" \in DOMAIN player /\ player.innings_pitched > 0
          THEN <<[name |-> Attr(player, "name", "Unknown"),
                  innings_pitched |-> Attr(player, "innings_pitched", 0),
                  hits |-> Attr(player, "hits_allowed", 0),
                  runs |-> Attr(player, "runs_allowed", 0),
                  earned_runs |-> Attr(player, "earned_runs", 0),
                  walks |-> Attr(player, "walks", 0),
                  strikeouts |-> Attr(player, "strikeouts", 0),
                  era |-> IF "era" \in DOMAIN player
                          THEN FormatFixed2(player.era) ELSE "0.00"]>>
          ELSE <<>>) \o LibPitchers(Tail(players))

\* The attributes the extraction reads without hasattr; a game object that
\* lacks one of them makes it raise.
LibGameWellFormed(game) ==
    /\ {"away_team", "home_team", "innings"} \subseteq DOMAIN game
    /\ "players" \in DOMAIN game.away_team /\ "players" \in DOMAIN game.home_team
    /\ \A i \in 1..Len(game.innings) :
          /\ "plate_appearances" \in DOMAIN game.innings[i]
          /\ \A j \in 1..Len(game.innings[i].plate_appearances) :
                {"half_inning", "pitches", "batter", "pitcher"}
                    \subseteq DOMAIN game.innings[i].plate_appearances[j]

extract_detailed_data_from_game(game, gid, date_str, away_code, home_code) ==
    IF ~LibGameWellFormed(game) THEN None
    ELSE LET inning_list == [i \in 1..Len(game.innings) |-> LibInning(i, game.innings[i])]
         IN [game_id |-> gid,
             date |-> date_str,
             away_team |-> [name |-> Attr(game.away_team, "name", away_code \o " Team"),
                            abbreviation |-> away_code],
             home_team |-> [name |-> Attr(game.home_team, "name", home_code \o " Team"),
                            abbreviation |-> home_code],
             venue |-> Attr(game, "venue", home_code \o " Stadium"),
             status |-> "completed",
             innings |-> inning_list,
             batters |-> [away |-> LibBatters(game.away_team.players),
                          home |-> LibBatters(game.home_team.players)],
             pitchers |-> [away |-> LibPitchers(game.away_team.players),
                           home |-> LibPitchers(game.home_team.players)],
             events |-> <<>>,
             integration_status |-> "real_baseball_lib_data",
             note |-> "Real detailed data from Baseball library for " \o away_code
                      \o " @ " \o home_code \o " on " \o date_str,
             total_away_runs |-> SumSeq(MapSeq(AwayRunsOf, inning_list)),
             total_home_runs |-> SumSeq(MapSeq(HomeRunsOf, inning_list))]

(***************************************************************************)
(* The outside world: answers of the remote schedule endpoint.             *)
(***************************************************************************)
ScheduleGame(away_name, home_name, game_number, pk, away_score, home_score) ==
    [gamePk |-> pk,
     teams |-> [away |-> [team |-> [name |-> away_name], score |-> away_score],
                home |-> [team |-> [name |-> home_name], score |-> home_score]],
     game |-> [gameNumber |-> game_number],
     status |-> [detailedState |-> "Final"],
     venue |-> [name |-> "Wrigley Field"]]

\* Entries for the pairing Tampa Bay at Chicago, one per game number and score.
CandidateGames ==
    { ScheduleGame("Tampa Bay Rays", "Chicago Cubs", n, 745000 + n, a, h) :
          n \in 1..MaxGameNumber, a \in 0..MaxScore, h \in {0, MaxScore} }
    \cup { [teams |-> [away |-> [team |-> [name |-> "Tampa Bay Rays"]],
                       home |-> [team |-> [name |-> "Chicago Cubs"]]]],
           [gamePk |-> 0,
            teams |-> [away |-> [team |-> [name |-> "Tampa Bay Rays"]],
                       home |-> [team |-> [name |-> "Chicago Cubs"]]]],
           [gamePk |-> 745009,
            teams |-> [away |-> [team |-> [name |-> "Tampa Bay Rays"]],
                       home |-> [team |-> [name |-> "Chicago Cubs"]]]] }

OtherGame == ScheduleGame("New York Mets", "Los Angeles Dodgers", 1, 745100, 1, 0)

\* Days with two entries for the pairing: a doubleheader, and the same game
\* number listed twice under two game keys.
DoubleheaderResponses ==
    { [dates |-> <<[games |-> <<ScheduleGame("Tampa Bay Rays", "Chicago Cubs", 1, 745001, 1, 0),
                                ScheduleGame("Tampa Bay Rays", "Chicago Cubs", n, 745010 + n,
                                             0, MaxScore)>>]>>] :
          n \in 1..MaxGameNumber }

ScheduleResponses ==
    {FetchError, EmptyDict, [dates |-> <<>>], [dates |-> <<[games |-> <<>>]>>],
     [dates |-> <<[games |-> <<OtherGame>>]>>]}
    \cup { [dates |-> <<[games |-> <<g>>]>>] : g \in CandidateGames }
    \cup { [dates |-> <<[games |-> <<OtherGame, g>>]>>] : g \in CandidateGames }
    \cup DoubleheaderResponses

\* The second fetch of the same schedule URL: the same answer, or a failure,
\* or an answer that no longer lists the game.
SecondScheduleResponses(first) == {first, FetchError, [dates |-> <<[games |-> <<OtherGame>>]>>]}

(***************************************************************************)
(* The outside world: the live feed, the library's documents, the files.   *)
(***************************************************************************)
LinescoreEntry(a, h) == [away |-> [runs |-> a], home |-> [runs |-> h]]

Linescores ==
    {<<>>, <<EmptyDict>>, <<[away |-> EmptyDict, home |-> [runs |-> 1]]>>}
    \cup { <<LinescoreEntry(a, h)>> : a \in 0..MaxScore, h \in {0, 1} }
    \cup { <<LinescoreEntry(a, 0), LinescoreEntry(1, h)>> : a \in 0..MaxScore, h \in {0, 1} }

Feed(innings) ==
    [gameData |-> [teams |-> [away |-> [name |-> "Tampa Bay Rays"],
                              home |-> [name |-> "Chicago Cubs"]],
                   venue |-> [name |-> "Wrigley Field"],
                   status |-> [detailedState |-> "Final"]],
     liveData |-> [linescore |-> [innings |-> innings]]]

FeedResponses ==
    {FetchError, EmptyDict} \cup { Feed(l) : l \in Linescores }

Runners(k) == [i \in 1..k |-> [first_name |-> "Runner", last_name |-> Str(i)]]

FullAppearance ==
    [batter |-> [first_name |-> "George", last_name |-> "Springer"],
     pitcher |-> [first_name |-> "Yu", last_name |-> "Darvish"],
     plate_appearance_description |-> "George Springer homers",
     plate_appearance_summary |-> "HR",
     got_on_base |-> TRUE,
     scoring_runners_list |-> Runners(2),
     runners_batted_in_list |-> Runners(2),
     inning_outs |-> 1,
     event_list |-> <<[pitch_type |-> "FF", pitch_description |-> "Ball"],
                      [substitution |-> "Pitching change"],
                      [pitch_description |-> "In play, run(s)"]>>]

TopHalfLists ==
    {<<>>, <<EmptyDict>>, <<FullAppearance>>, <<[runs_scored |-> 1]>>}
    \cup { <<[scoring_runners_list |-> Runners(k)]>> : k \in 0..MaxRunners }

BottomHalfLists == {<<>>, <<[scoring_runners_list |-> Runners(1)]>>}

InningInfos ==
    {EmptyDict, [inning |-> 1]}
    \cup { [inning |-> n, top_half_appearance_list |-> t, bottom_half_appearance_list |-> b] :
             n \in 1..MaxInningNo, t \in TopHalfLists, b \in BottomHalfLists }

\* Records that follow another one in inning_list: one without a number,
\* and one of every number with a run scored in the top half.
LaterInningInfos ==
    {EmptyDict}
    \cup { [inning |-> n,
            top_half_appearance_list |-> <<[scoring_runners_list |-> Runners(1)]>>,
            bottom_half_appearance_list |-> <<>>] : n \in 1..MaxInningNo }

\* Documents with box-score rows: rows without any field, a row that is too
\* short, and rows with obp (in thousandths) and era (in thousandths).
BoxDocs ==
    {[away_batter_box_score_dict |-> <<<<EmptyDict, EmptyDict>>>>,
      away_pitcher_box_score_dict |-> <<<<EmptyDict, EmptyDict>>>>],
     [home_batter_box_score_dict |->
          << <<EmptyDict>>,
             <<[first_name |-> "Cody", last_name |-> "Bellinger", obp |-> 352],
               [AB |-> 4, H |-> 1, R |-> 0, RBI |-> 0]>> >>,
      home_pitcher_box_score_dict |->
          << <<[first_name |-> "Yu", last_name |-> "Darvish", era |-> 3860],
               [IP |-> 1, H |-> 3, R |-> 5, ER |-> 4, BB |-> 1, SO |-> 0]>>,
             <<[last_name |-> "Kershaw"], [IP |-> 4]>> >>]}

\* Documents the library writes: the file is a JSON object.
GameDocs ==
    {EmptyDict, [inning_list |-> <<>>]} \cup BoxDocs
    \cup { [inning_list |-> <<a>>] : a \in InningInfos }
    \cup { [inning_list |-> <<a, b>>] : a \in InningInfos, b \in LaterInningInfos }

TemplateFiles ==
    {[exists |-> FALSE, wrapper |-> TRUE, doc |-> Unreadable],
     [exists |-> TRUE, wrapper |-> FALSE, doc |-> Unreadable],
     [exists |-> TRUE, wrapper |-> TRUE, doc |-> Unreadable]}
    \cup { [exists |-> TRUE, wrapper |-> TRUE, doc |-> d] : d \in GameDocs }

StatInnings ==
    { [inning |-> n,
       top_half_appearance_list |-> <<[scoring_runners_list |-> Runners(k)]>>,
       bottom_half_appearance_list |-> <<EmptyDict>>,
       top_half_inning_stats |-> <<r, 0, 0, 0, 0, 0, 0, 0>>,
       bottom_half_inning_stats |-> <<>>] :
          n \in 1..MaxInningNo, k \in 0..MaxRunners, r \in 0..MaxRunners }

JsonDocs ==
    GameDocs
    \cup { [inning_list |-> <<a>>] : a \in StatInnings }
    \cup { [inning_list |-> <<a, b>>] : a, b \in StatInnings }
    \cup { [inning_list |-> <<a, b>>] : a \in StatInnings, b \in LaterInningInfos }

\* Answers of statsapi.mlb.com to the sub-fetches of the enrichment.
RaisesResp == [kind |-> "raises"]

StatusResp == [kind |-> "status"]

OkResp(body) == [kind |-> "ok", body |-> body]

ApiTeam(id, abbreviation, sport_id) ==
    [id |-> id, abbreviation |-> abbreviation, sport |-> [id |-> sport_id]]

TeamsBody ==
    [teams |-> <<ApiTeam(5001, "TB", 22), ApiTeam(139, "TB", 1), ApiTeam(112, "CHC", 1),
                 ApiTeam(117, "HOU", 1)>>]

ApiGameTeams == [away |-> [team |-> [id |-> 139]], home |-> [team |-> [id |-> 112]]]

BareApiGame == [teams |-> ApiGameTeams]

ApiGame ==
    [teams |-> ApiGameTeams, gamePk |-> 776123, gameDate |-> "2025-09-14T18:20:00Z",
     venue |-> [name |-> "Wrigley Field"]]

OfficiatedApiGame ==
    [officials |-> <<[officialType |-> "Umpire", firstName |-> "Marvin",
                      lastName |-> "Hudson", position |-> "HP"],
                     [officialType |-> "Official Scorer", firstName |-> "Bob",
                      lastName |-> "Rosenberg"]>>,
     weather |-> [condition |-> "Sunny", temp |-> "72"]] @@ ApiGame

\* A doubleheader of the pairing: two entries, the second at another venue.
DoubleheaderBody ==
    [dates |-> <<[games |-> <<[gameNumber |-> 1] @@ ApiGame,
                              [teams |-> ApiGameTeams, gamePk |-> 776124, gameNumber |-> 2,
                               gameDate |-> "2025-09-14T23:05:00Z",
                               venue |-> [name |-> "Sloan Park"]]>>]>>]

ScheduleBodies ==
    {EmptyDict, [dates |-> <<[games |-> <<[teams |-> EmptyDict]>>]>>], DoubleheaderBody}
    \cup { [dates |-> <<[games |-> <<g>>]>>] : g \in {BareApiGame, ApiGame, OfficiatedApiGame} }

CoachesBody(full_name) ==
    [roster |-> <<[job |-> "Bench Coach", person |-> [fullName |-> "Rodney Linares"]],
                  [job |-> "Manager", person |-> [fullName |-> full_name]]>>]

UmpireTexts ==
    {"HP: Marvin Hudson. 1B: Hunter Wendelstedt.",
     "HP: Marvin Hudson. 1B: Hunter Wendelstedt. ",
     "HP: Marvin Hudson; 1B: Hunter Wendelstedt",
     "HP: Marvin Hudson",
     ""}

FeedBody(umpires_text) ==
    [liveData |->
         [boxscore |-> [info |-> <<[label |-> "Umpires", value |-> umpires_text],
                                   [label |-> "T", value |-> "2:41"]>>],
          plays |-> [allPlays |-> <<[about |-> [endTime |-> "2025-09-14T21:05:00Z"]]>>]],
     gameData |-> [game |-> [status |-> "Final"],
                   weather |-> [condition |-> "Sunny", wind |-> "9 mph, Out To CF"]]]

PreviewFeedBody ==
    [liveData |-> [boxscore |-> [info |-> <<[label |-> "First pitch", value |-> "1:21 PM"]>>]],
     info |-> <<[label |-> "Weather", value |-> "72 degrees, Cloudy"], [label |-> "Wind"]>>,
     gameData |-> [game |-> [status |-> "Preview"]]]

FeedBodies == {EmptyDict, PreviewFeedBody} \cup { FeedBody(t) : t \in UmpireTexts }

UniformAsset(code, text) ==
    [uniformAssetType |-> [uniformAssetTypeCode |-> code], uniformAssetText |-> text]

UniformsBodies ==
    {EmptyDict,
     [uniforms |-> <<[away |-> [uniformAssets |-> <<UniformAsset("C", "Road Cap"),
                                                    UniformAsset("J", "Road Grey")>>],
                      home |-> [uniformAssets |-> <<UniformAsset("C", "Home Cap")>>]]>>]}

\* Every sub-fetch answered with a full document.
BaseApi ==
    [requests_available |-> TRUE,
     teams |-> OkResp(TeamsBody),
     schedule |-> OkResp([dates |-> <<[games |-> <<ApiGame>>]>>]),
     coaches_away |-> OkResp(CoachesBody("Kevin Cash")),
     coaches_home |-> OkResp(CoachesBody("Craig Counsell")),
     feed |-> OkResp(FeedBody("HP: Marvin Hudson. 1B: Hunter Wendelstedt.")),
     uniforms |-> OkResp([uniforms |-> <<[away |-> [uniformAssets |->
                                                   <<UniformAsset("J", "Road Grey")>>],
                                          home |-> [uniformAssets |->
                                                   <<UniformAsset("J", "Home White")>>]]>>])]

Failures == {RaisesResp, StatusResp}

\* The enumerated answers: the full one, and those differing from it in one
\* sub-fetch, or in the schedule entry and one later sub-fetch.
ApiWorlds ==
    {BaseApi, [BaseApi EXCEPT !.requests_available = FALSE]}
    \cup { [BaseApi EXCEPT !.teams = r] : r \in Failures \cup {OkResp(EmptyDict)} }
    \cup { [BaseApi EXCEPT !.schedule = r] :
             r \in Failures \cup { OkResp(b) : b \in ScheduleBodies } }
    \cup { [BaseApi EXCEPT !.coaches_away = r] : r \in Failures \cup {OkResp(EmptyDict)} }
    \cup { [BaseApi EXCEPT !.coaches_home = r] : r \in Failures \cup {OkResp(EmptyDict)} }
    \cup { [BaseApi EXCEPT !.feed = r] : r \in Failures \cup { OkResp(b) : b \in FeedBodies } }
    \cup { [BaseApi EXCEPT !.uniforms = r] :
             r \in Failures \cup { OkResp(b) : b \in UniformsBodies } }
    \cup { [BaseApi EXCEPT !.schedule = OkResp([dates |-> <<[games |-> <<OfficiatedApiGame>>]>>]),
                           !.feed = r] : r \in Failures \cup {OkResp(EmptyDict)} }
    \cup { [BaseApi EXCEPT !.coaches_away = StatusResp, !.coaches_home = StatusResp,
                           !.feed = StatusResp, !.uniforms = StatusResp] }

\* What baseball.fetch_game.get_game_from_url did: it raised, it found no
\* game, or it returned a game whose JSON text parses to doc.
LibraryOutcomes ==
    {[kind |-> "raises"], [kind |-> "none"], [kind |-> "game", doc |-> Unreadable]}
    \cup { [kind |-> "game", doc |-> d] : d \in GameDocs }

\* The enrichment answers are varied against a few library outcomes, and the
\* library outcomes against a few enrichment answers.
CoreApiWorlds ==
    {BaseApi, [BaseApi EXCEPT !.requests_available = FALSE],
     [BaseApi EXCEPT !.schedule = OkResp([dates |-> <<[games |-> <<BareApiGame>>]>>])]}

CoreLibraryOutcomes ==
    {[kind |-> "raises"], [kind |-> "game", doc |-> Unreadable],
     [kind |-> "game", doc |-> EmptyDict]}


BridgeLibraryOutcomes ==
    CoreLibraryOutcomes \cup {[kind |-> "none"]}
    \cup { [kind |-> "game", doc |-> d] : d \in BoxDocs }

\* Game objects of the library as extract_detailed_data_from_game reads them.
LibPA(h, r) ==
    [half_inning |-> h, runs_scored |-> r,
     batter |-> [name |-> "George Springer"], pitcher |-> [name |-> "Yu Darvish"],
     pitches |-> <<[pitch_type |-> "FF", speed |-> 95]>>]

LibPAs ==
    { LibPA(h, r) : h \in {0, 1}, r \in 0..MaxRunners }
    \cup { [half_inning |-> 0, batter |-> EmptyDict, pitcher |-> EmptyDict, pitches |-> <<>>],
           [runs_scored |-> 1, batter |-> EmptyDict, pitcher |-> EmptyDict, pitches |-> <<>>] }

LibInnings ==
    {[plate_appearances |-> <<>>], EmptyDict}
    \cup { [plate_appearances |-> <<a>>] : a \in LibPAs }
    \cup { [plate_appearances |-> <<a, LibPA(1, 1)>>] : a \in LibPAs }

LibPlayers ==
    <<[name |-> "George Springer", at_bats |-> 5, hits |-> 2, runs |-> 1, rbis |-> 2,
       batting_average |-> 283, position |-> "CF", lineup_order |-> 1],
      [name |-> "Charlie Morton", at_bats |-> 0, innings_pitched |-> 4,
       hits_allowed |-> 2, runs_allowed |-> 1, earned_runs |-> 1, walks |-> 1,
       strikeouts |-> 4, era |-> 362],
      [at_bats |-> 1],
      EmptyDict>>

LibTeam(name) == [name |-> name, players |-> LibPlayers]

LibGames ==
    {EmptyDict,
     [away_team |-> EmptyDict, home_team |-> EmptyDict, innings |-> <<>>],
     [away_team |-> [players |-> <<>>], home_team |-> [players |-> <<>>], innings |-> <<>>]}
    \cup { [away_team |-> LibTeam("Houston Astros"),
            home_team |-> LibTeam("Los Angeles Dodgers"),
            venue |-> "Dodger Stadium",
            innings |-> <<a>>] : a \in LibInnings }
    \cup { [away_team |-> LibTeam("Houston Astros"),
            home_team |-> LibTeam("Los Angeles Dodgers"),
            innings |-> <<a, b>>] : a, b \in LibInnings }

\* The sample file of the library entry point: absent; present with the
\* library not importable; present and get_game_from_file raising, returning
\* no game, or returning a game object.
SampleFiles ==
    {[exists |-> FALSE], [exists |-> TRUE, load |-> "import_error"],
     [exists |-> TRUE, load |-> "raises"], [exists |-> TRUE, load |-> "none"]}
    \cup { [exists |-> TRUE, load |-> "game", game |-> g] : g \in LibGames }

SamplePath == "world_series_game7.json"

GameIds ==
    {"2025-09-14-TB-CHC-1", "2025-09-14-TB-CHC-2", "2025-09-14-TB-ZZ-1",
     "2025-09-14-TB-CHC-01", "2025-09-14-TB-CHC-1-x", "2025-02-30-TB-CHC-1",
     "2025-09-14-TB-CHC-x", "2025-09-14-TB-CHC-", "not-a-game-id", ""}

ValidGameIds == { g \in GameIds : ParseGameId(g).status = "ok" }

Entries == {"real", "fixed", "json", "lib", "extract_json", "codec", "bridge", "template", "bridge_svg"}

\* The entry points that are scripts with a __main__ block.
MainEntries == {"real", "fixed", "json", "lib", "bridge", "bridge_svg"}

\* Components the codec is exercised on.
CodecDates == {"2025-09-14", "2017-11-01"}

CodecCodes == {"TB", "CHC", "ZZ"}

CodecNumbers == 1..MaxGameNumber \cup {10, 12}

Unasked == [unasked |-> TRUE]

NoWorld ==
    [schedule |-> Unasked, details |-> Unasked, feed |-> Unasked, file |-> Unasked,
     supplementary |-> Unasked, library |-> Unasked, sample |-> Unasked,
     doc |-> Unasked, api |-> Unasked, source |-> "none", query |-> "none"]

Raised(exc) == [exception |-> exc]

\* An endpoint that accepts the connection and never answers.
NoAnswer == [no_answer |-> TRUE]

\* urllib.request.urlopen(url) is called without a timeout: with an endpoint
\* that never answers the call does not return.
Hang(w, calls) ==
    /\ returned' = "hung"
    /\ result' = None
    /\ contacted' = calls
    /\ world' = w

(***************************************************************************)
(* The __main__ blocks: the documents printed to standard output and the   *)
(* exit status, after the entry point returned ret and res.  Every other   *)
(* print of the modules names file=sys.stderr.                             *)
(***************************************************************************)
FailedPayload == [error |-> "Failed to generate game data", code |-> 1]

NoGameIdPayload == [error |-> "No game ID provided", code |-> 1]

\* if data: print(json.dumps(data, indent=2)); only the JSON module has an
\* else branch.  An uncaught exception prints its traceback to standard error.
MainStdout(e, ret, res) ==
    IF ret # "value" THEN <<>>
    ELSE IF Truthy(res) THEN <<res>>
    ELSE IF e = "json" THEN <<FailedPayload>>
    ELSE <<>>

\* The status the interpreter exits with: 0 at the end of the script, 1
\* after an uncaught exception, none while the call hangs.
MainExit(ret) ==
    CASE ret = "value" -> Box(0)
      [] ret = "raised" -> Box(1)
      [] OTHER -> None

Main ==
    /\ stdout' = MainStdout(entry, returned', result')
    /\ exit_status' = MainExit(returned')
    /\ UNCHANGED has_arg

(***************************************************************************)
(* Entry point get_detailed_game_data of baseball_integration_real.py.     *)
(***************************************************************************)
GetDetailedGameDataReal ==
    /\ entry = "real" /\ returned = "pending" /\ has_arg
    /\ LET p == ParseGameId(game_id) IN
       IF p.status # "ok"
       THEN /\ returned' = "value"
            /\ result' = RealErrorFallback(game_id)
            /\ contacted' = <<>>
            /\ world' = NoWorld
       ELSE \E resp \in ScheduleResponses \cup {NoAnswer} :
            LET game_pk == get_game_pk_from_schedule(p.date_str, p.away_code,
                                                     p.home_code, p.game_number, resp)
                calls1 == <<"schedule">>
                w1 == [NoWorld EXCEPT !.schedule = resp]
            IN IF resp = NoAnswer THEN Hang(w1, calls1)
               ELSE IF BoxTruthy(game_pk)
               THEN \E resp2 \in SecondScheduleResponses(resp) \cup {NoAnswer} :
                    LET detailed_data ==
                            get_mlb_game_details_from_schedule(game_pk, game_id,
                                p.date_str, p.away_code, p.home_code, resp2)
                    IN IF resp2 = NoAnswer
                       THEN Hang([w1 EXCEPT !.details = resp2],
                                 calls1 \o <<"schedule_details">>)
                       ELSE
                       /\ returned' = "value"
                       /\ result' = IF Truthy(detailed_data) THEN detailed_data
                                     ELSE RealMockData(game_id, p.date_str,
                                                       p.away_code, p.home_code)
                       /\ contacted' = calls1 \o <<"schedule_details">>
                       /\ world' = [w1 EXCEPT !.details = resp2,
                                              !.source = IF Truthy(detailed_data)
                                                         THEN "remote_api" ELSE "none",
                                              !.query = IF Truthy(detailed_data)
                                                        THEN game_id ELSE "none"]
               ELSE /\ returned' = "value"
                    /\ result' = RealMockData(game_id, p.date_str, p.away_code, p.home_code)
                    /\ contacted' = calls1
                    /\ world' = w1
    /\ Main
    /\ UNCHANGED <<entry, game_id>>

(***************************************************************************)
(* Entry point get_detailed_game_data of baseball_integration_fixed.py.    *)
(* When the parse prologue raises, the except branch evaluates its call    *)
(* arguments date_str .. game_number, of which at least one is unbound.    *)
(***************************************************************************)
FixedFallback(p, w, calls) ==
    \E file \in TemplateFiles :
        /\ returned' = "value"
        /\ result' = get_template_data_fallback(game_id, p.date_str, p.away_code,
                                                p.home_code, p.game_number, file)
        /\ contacted' = calls \o <<"template_file">>
        /\ world' = [w EXCEPT !.file = file,
                              !.source = IF TemplateLoads(file) THEN "template_file"
                                         ELSE "none",
                              !.query = IF TemplateLoads(file) THEN SamplePath ELSE "none"]

GetDetailedGameDataFixed ==
    /\ entry = "fixed" /\ returned = "pending" /\ has_arg
    /\ LET p == ParseGameId(game_id) IN
       IF p.status # "ok"
       THEN /\ returned' = "raised"
            /\ result' = Raised("UnboundLocalError")
            /\ contacted' = <<>>
            /\ world' = NoWorld
       ELSE \E resp \in ScheduleResponses \cup {NoAnswer} :
            LET game_pk == get_game_pk_from_schedule(p.date_str, p.away_code,
                                                     p.home_code, p.game_number, resp)
                calls1 == <<"schedule">>
                w1 == [NoWorld EXCEPT !.schedule = resp]
            IN IF resp = NoAnswer THEN Hang(w1, calls1)
               ELSE IF BoxTruthy(game_pk)
               THEN \E feed \in FeedResponses \cup {NoAnswer} :
                    LET detailed_data == get_mlb_game_details(game_pk, game_id, p.date_str,
                                                              p.away_code, p.home_code, feed)
                        w2 == [w1 EXCEPT !.feed = feed]
                    IN IF feed = NoAnswer THEN Hang(w2, calls1 \o <<"live_feed">>)
                       ELSE IF HasDetailedData(detailed_data)
                       THEN /\ returned' = "value"
                            /\ result' = detailed_data
                            /\ contacted' = calls1 \o <<"live_feed">>
                            /\ world' = [w2 EXCEPT !.source = "remote_api",
                                                   !.query = game_id]
                       ELSE FixedFallback(p, w2, calls1 \o <<"live_feed">>)
               ELSE FixedFallback(p, w1, calls1)
    /\ Main
    /\ UNCHANGED <<entry, game_id>>

(***************************************************************************)
(* Entry point get_detailed_game_data_from_json.                           *)
(***************************************************************************)
GetDetailedGameDataFromJson ==
    /\ entry = "json" /\ returned = "pending" /\ has_arg
    /\ LET p == ParseGameId(game_id) IN
       CASE p.status = "too_short" ->
                /\ returned' = "value"
                /\ result' = InvalidIdPayload
                /\ contacted' = <<>>
                /\ world' = NoWorld
         [] p.status = "not_int" ->
                /\ returned' = "value"
                /\ result' = JsonFallbackData(game_id, p.date_str, p.away_code,
                                              p.home_code, None)
                /\ contacted' = <<>>
                /\ world' = NoWorld
         [] p.status = "ok" ->
                \E api \in ApiWorlds, available \in BOOLEAN :
                LET supp == get_mlb_api_supplementary_data(p.date_str, p.away_code,
                                                           p.home_code, api)
                    w1 == [NoWorld EXCEPT !.supplementary = supp, !.api = api]
                    fallback == JsonFallbackData(game_id, p.date_str, p.away_code,
                                                 p.home_code, supp)
                IN IF available
                   THEN \E lib \in LibraryOutcomes :
                        /\ api \in CoreApiWorlds \/ lib \in CoreLibraryOutcomes
                        /\ returned' = "value"
                        /\ result' = IF lib.kind = "game"
                                      THEN extract_detailed_data_from_baseball_library(
                                               lib.doc, game_id, p.date_str, p.away_code,
                                               p.home_code, supp)
                                      ELSE fallback
                        /\ contacted' = <<"enrichment", "library_live">>
                        /\ world' = [w1 EXCEPT !.library = lib,
                                                !.source = IF lib.kind = "game"
                                                           THEN "library_live" ELSE "none",
                                                !.query = IF lib.kind = "game"
                                                          THEN game_id ELSE "none"]
                   ELSE /\ returned' = "value"
                        /\ result' = fallback
                        /\ contacted' = <<"enrichment">>
                        /\ world' = [w1 EXCEPT !.library = [kind |-> "unavailable"]]
    /\ Main
    /\ UNCHANGED <<entry, game_id>>

(***************************************************************************)
(* Entry point get_detailed_game_data_from_baseball_lib.  After a parse    *)
(* error the fallback call reads date_str, unbound when the identifier was *)
(* too short.                                                              *)
(***************************************************************************)
GetDetailedGameDataFromBaseballLib ==
    /\ entry = "lib" /\ returned = "pending" /\ has_arg
    /\ LET p == ParseGameId(game_id) IN
       CASE p.status = "too_short" ->
                /\ returned' = "raised"
                /\ result' = Raised("UnboundLocalError")
                /\ contacted' = <<>>
                /\ world' = NoWorld
         [] p.status = "not_int" ->
                /\ returned' = "value"
                /\ result' = LibFallbackData(game_id, p.date_str, p.away_code, p.home_code)
                /\ contacted' = <<>>
                /\ world' = NoWorld
         [] p.status = "ok" ->
                \E sample \in SampleFiles :
                LET detailed_data ==
                        IF sample.exists /\ sample.load = "game"
                        THEN extract_detailed_data_from_game(sample.game, game_id,
                                 p.date_str, p.away_code, p.home_code)
                        ELSE None
                IN /\ returned' = "value"
                   /\ result' = IF Truthy(detailed_data) THEN detailed_data
                                 ELSE LibFallbackData(game_id, p.date_str,
                                                      p.away_code, p.home_code)
                   /\ contacted' = <<"sample_file">>
                   /\ world' = [NoWorld EXCEPT !.sample = sample,
                                               !.source = IF Truthy(detailed_data)
                                                          THEN "sample_file" ELSE "none",
                                               !.query = IF Truthy(detailed_data)
                                                         THEN SamplePath ELSE "none"]
    /\ Main
    /\ UNCHANGED <<entry, game_id>>

(***************************************************************************)
(* The normalizer extract_detailed_data_from_json applied to a document.   *)
(***************************************************************************)
ExtractDetailedDataFromJson ==
    /\ entry = "extract_json" /\ returned = "pending"
    /\ LET p == ParseGameId(game_id) IN
       \E doc \in JsonDocs \cup {Unreadable} :
           /\ returned' = "value"
           /\ result' = extract_detailed_data_from_json(doc, game_id, p.date_str,
                                                        p.away_code, p.home_code)
           /\ contacted' = <<>>
           /\ world' = [NoWorld EXCEPT !.doc = doc]
    /\ UNCHANGED <<entry, game_id, has_arg, stdout, exit_status>>

(***************************************************************************)
(* Entry point get_detailed_game_data of baseball_integration.py: the      *)
(* template file customized for the request, and the enhanced mock data    *)
(* when the identifier does not parse or the template cannot be loaded.    *)
(***************************************************************************)
GetDetailedGameDataTemplate ==
    /\ entry = "template" /\ returned = "pending"
    /\ LET p == ParseGameId(game_id) IN
       IF p.status # "ok"
       THEN /\ returned' = "value"
            /\ result' = EnhancedMockData(game_id)
            /\ contacted' = <<>>
            /\ world' = NoWorld
       ELSE \E file \in TemplateFiles :
            /\ returned' = "value"
            /\ result' = IF TemplateLoads(file)
                          THEN customize_game_data(load_game_data(file.doc), p.date_str,
                                   p.away_code, p.home_code, p.game_number)
                          ELSE EnhancedMockData(game_id)
            /\ contacted' = <<"template_file">>
            /\ world' = [NoWorld EXCEPT !.file = file,
                              !.source = IF TemplateLoads(file) THEN "template_file"
                                         ELSE "none",
                              !.query = IF TemplateLoads(file) THEN SamplePath ELSE "none"]
    /\ UNCHANGED <<entry, game_id, has_arg, stdout, exit_status>>

(***************************************************************************)
(* The codec alone: an identifier is formatted from its components and     *)
(* parsed back.                                                            *)
(***************************************************************************)
CodecRoundTrip ==
    /\ entry = "codec" /\ returned = "pending"
    /\ \E d \in CodecDates, a \in CodecCodes, h \in CodecCodes, n \in CodecNumbers :
          LET text == FormatGameId(d, a, h, n) IN
          /\ game_id' = text
          /\ returned' = "value"
          /\ result' = [components |-> [date_str |-> d, away_code |-> a,
                                         home_code |-> h, game_number |-> n],
                         parsed |-> ParseGameId(text)]
    /\ contacted' = <<>>
    /\ world' = NoWorld
    /\ UNCHANGED <<entry, has_arg, stdout, exit_status>>

(***************************************************************************)
(* A script started without the identifier argument (sys.argv too short):  *)
(* it prints an error object and calls sys.exit(1).                        *)
(***************************************************************************)
MainWithoutArgument ==
    /\ entry \in MainEntries /\ ~has_arg /\ exit_status = None
    /\ stdout' = <<IF entry \in {"bridge", "bridge_svg"} THEN BridgeUsagePayload
                  ELSE NoGameIdPayload>>
    /\ exit_status' = Box(1)
    /\ UNCHANGED <<entry, game_id, returned, result, contacted, world, has_arg>>

(***************************************************************************)
(* baseball_bridge.py get_game <game_id>: the import of the library at the *)
(* top of the script, then get_game_details and print(result).             *)
(***************************************************************************)
BridgeGetGame ==
    /\ entry = "bridge" /\ has_arg /\ exit_status = None
    /\ \E import_ok \in BOOLEAN :
          IF ~import_ok
          THEN /\ stdout' = <<BridgeImportPayload>>
               /\ exit_status' = Box(1)
               /\ world' = [NoWorld EXCEPT !.library = [kind |-> "unavailable"]]
               /\ UNCHANGED <<returned, result, contacted>>
          ELSE \E lib \in BridgeLibraryOutcomes :
               LET asked == BridgeParses(game_id)
                   payload == get_game_details(game_id, lib)
               IN /\ returned' = "value"
                  /\ result' = payload
                  /\ contacted' = IF asked THEN <<"library_live">> ELSE <<>>
                  /\ world' = IF asked THEN [NoWorld EXCEPT !.library = lib] ELSE NoWorld
                  /\ stdout' = <<payload>>
                  /\ exit_status' = Box(0)
    /\ UNCHANGED <<entry, game_id, has_arg>>

(***************************************************************************)
(* baseball_bridge.py get_svg <game_id>: the import of the library, then   *)
(* get_game_svg and print(result).                                         *)
(***************************************************************************)
BridgeGetSvg ==
    /\ entry = "bridge_svg" /\ has_arg /\ exit_status = None
    /\ \E import_ok \in BOOLEAN :
          IF ~import_ok
          THEN /\ stdout' = <<BridgeImportPayload>>
               /\ exit_status' = Box(1)
               /\ world' = [NoWorld EXCEPT !.library = [kind |-> "unavailable"]]
               /\ UNCHANGED <<returned, result, contacted>>
          ELSE \E lib \in BridgeLibraryOutcomes, svg_ok \in BOOLEAN :
               LET asked == BridgeParses(game_id)
                   payload == get_game_svg(game_id, lib, svg_ok)
               IN /\ returned' = "value"
                  /\ result' = payload
                  /\ contacted' = IF asked THEN <<"library_live">> ELSE <<>>
                  /\ world' = IF asked THEN [NoWorld EXCEPT !.library = lib] ELSE NoWorld
                  /\ stdout' = <<payload>>
                  /\ exit_status' = Box(0)
    /\ UNCHANGED <<entry, game_id, has_arg>>

(***************************************************************************)
(* Specification.                                                          *)
(***************************************************************************)
Init ==
    /\ entry \in Entries
    /\ has_arg \in IF entry \in MainEntries THEN BOOLEAN ELSE {TRUE}
    /\ game_id \in CASE ~has_arg -> {""}
                     [] entry = "extract_json" -> ValidGameIds
                     [] entry = "codec" -> {""}
                     [] OTHER -> GameIds
    /\ returned = "pending"
    /\ result = None
    /\ contacted = <<>>
    /\ world = NoWorld
    /\ stdout = <<>>
    /\ exit_status = None

Next ==
    \/ GetDetailedGameDataReal
    \/ GetDetailedGameDataFixed
    \/ GetDetailedGameDataFromJson
    \/ GetDetailedGameDataFromBaseballLib
    \/ ExtractDetailedDataFromJson
    \/ GetDetailedGameDataTemplate
    \/ CodecRoundTrip
    \/ MainWithoutArgument
    \/ BridgeGetGame
    \/ BridgeGetSvg

Spec == Init /\ [][Next]_vars

(***************************************************************************)
(* Vocabulary of the properties.                                           *)
(***************************************************************************)
Done == returned \notin {"pending", "hung"}

ResolveEntries == {"real", "fixed", "json", "lib"}

Resolved == Done /\ entry \in ResolveEntries

IsSummary(v) == "integration_status" \in DOMAIN v

IsErrorPayload(v) == "error" \in DOMAIN v

SummaryReturned == Resolved /\ returned = "value" /\ IsSummary(result)

Request == ParseGameId(game_id)

Range(seq) == { seq[i] : i \in 1..Len(seq) }

RealTags ==
    {"real_mlb_api_data", "real_mlb_schedule_data", "real_baseball_library_data",
     "real_baseball_lib_data", "real_json_data", "real_data_from_baseball_lib"}

FallbackTags == {"fallback_mock_data", "fallback_data", "error_fallback"}

\* Priority of the adapter a call belongs to: local file, library live
\* fetch, remote API; enrichment is no adapter.
AdapterPriority(call) ==
    CASE call \in {"template_file", "sample_file"} -> 1
      [] call = "library_live" -> 2
      [] call \in {"schedule", "schedule_details", "live_feed"} -> 3
      [] OTHER -> 0

IsCanonicalId(text) ==
    LET p == Split(text, "-") IN
    /\ Len(p) = 6
    /\ Len(p[1]) = 4 /\ AllDigits(p[1])
    /\ Len(p[2]) = 2 /\ AllDigits(p[2])
    /\ Len(p[3]) = 2 /\ AllDigits(p[3])
    /\ p[4] # "" /\ p[5] # ""
    /\ p[6] # "" /\ AllDigits(p[6]) /\ Head(p[6]) # "0"

InningRunsMatchEvents(inning) ==
    /\ inning.away_runs = SumSeq([i \in 1..Len(inning.top_events) |->
                                     inning.top_events[i].runs_scored])
    /\ inning.home_runs = SumSeq([i \in 1..Len(inning.bottom_events) |->
                                     inning.bottom_events[i].runs_scored])

RemotePk ==
    get_game_pk_from_schedule(Request.date_str, Request.away_code, Request.home_code,
                              Request.game_number, world.schedule)

(***************************************************************************)
(* Properties.                                                             *)
(***************************************************************************)
\* C1: for every valid identifier and every combination of adapter
\* outcomes a resolve entry point returns a summary with a non-empty
\* integration_status; it never raises, never returns None or an error
\* payload.
C1_ResolveIsTotal ==
    (Resolved /\ Request.status = "ok") =>
        /\ returned = "value"
        /\ IsSummary(result)
        /\ result.integration_status # ""

\* C2: an identifier with fewer than 6 segments is a hard parse error in
\* every resolve entry point: the caller gets an error (an error payload or
\* an exception), no summary is produced and no adapter is contacted.
C2_ShortIdIsParseError ==
    (Resolved /\ Request.status = "too_short") =>
        /\ returned = "raised" \/ IsErrorPayload(result)
        /\ ~IsSummary(result)
        /\ contacted = <<>>

\* C3: an identifier with 6 segments whose sixth segment is no integer
\* fails like a too-short one: an error, and no fallback or mock summary.
C3_NonIntegerIsParseError ==
    (Resolved /\ Request.status = "not_int") =>
        /\ returned = "raised" \/ IsErrorPayload(result)
        /\ ~IsSummary(result)

\* C4 as stated: adapters are attempted in the priority order local file,
\* library live fetch, remote API, so no adapter is attempted before one
\* of higher priority.
C4_LocalFileThenLibraryThenRemote ==
    Resolved =>
        \A i, j \in 1..Len(contacted) :
            (i < j /\ AdapterPriority(contacted[i]) > 0 /\ AdapterPriority(contacted[j]) > 0)
                => AdapterPriority(contacted[i]) <= AdapterPriority(contacted[j])

\* C4 amended: each entry point attempts its own sources in its own fixed
\* order.  The fixed entry point asks the remote API first (the schedule,
\* then the live feed exactly when a game key was found), the template file
\* exactly when the remote API failed or returned no data, and returns the
\* basic mock only after the template file failed too; the json entry point
\* asks only the library, the lib entry point only the sample file, the
\* real entry point only the remote schedule; and for a valid identifier
\* the fallback summary is returned only after these sources failed or
\* were unavailable.
C4_EntryPointSourceOrder ==
    (Resolved /\ Request.status = "ok" /\ returned = "value") =>
        CASE entry = "fixed" ->
                /\ contacted \in {<<"schedule", "live_feed">>,
                                   <<"schedule", "template_file">>,
                                   <<"schedule", "live_feed", "template_file">>}
                /\ ("live_feed" \in Range(contacted)) <=> BoxTruthy(RemotePk)
                /\ ("template_file" \in Range(contacted))
                       <=> (~BoxTruthy(RemotePk) \/ world.feed = FetchError)
                /\ (result.integration_status = "fallback_mock_data")
                       <=> ("template_file" \in Range(contacted)
                            /\ ~TemplateLoads(world.file))
          [] entry = "json" ->
                /\ contacted \in {<<"enrichment">>, <<"enrichment", "library_live">>}
                /\ ("library_live" \in Range(contacted))
                       <=> (world.library.kind # "unavailable")
                /\ (IsSummary(result) /\ result.integration_status = "fallback_data")
                       => world.library.kind \in {"unavailable", "raises", "none"}
          [] entry = "lib" ->
                /\ contacted = <<"sample_file">>
                /\ (result.integration_status = "fallback_data")
                       => ~(world.sample.exists /\ world.sample.load = "game"
                            /\ LibGameWellFormed(world.sample.game))
          [] entry = "real" ->
                /\ contacted \in {<<"schedule">>, <<"schedule", "schedule_details">>}
                /\ ("schedule_details" \in Range(contacted)) <=> BoxTruthy(RemotePk)
                /\ (result.integration_status = "fallback_mock_data")
                       => (~BoxTruthy(RemotePk)
                           \/ ~Truthy(get_mlb_game_details_from_schedule(RemotePk, game_id,
                                   Request.date_str, Request.away_code, Request.home_code,
                                   world.details)))

\* C4 witness: the fixed entry point went through the schedule, the live
\* feed and the template file, all failed, and the basic mock was returned.
C4_Witness ==
    /\ entry = "fixed" /\ Done
    /\ contacted = <<"schedule", "live_feed", "template_file">>
    /\ IsSummary(result) /\ result.integration_status = "fallback_mock_data"

\* C5: the summary is built from the source that returned usable data, no
\* source is invoked after it, and a real-data tag is carried only when the
\* data was obtained for the requested game.
C5_ProvenanceIsTruthful ==
    SummaryReturned =>
        /\ world.source # "none" =>
               AdapterPriority(contacted[Len(contacted)]) > 0
        /\ result.integration_status \in RealTags => world.query = game_id

\* C6: every returned summary carries total_away_runs and total_home_runs,
\* equal to the sums of away_runs and home_runs over its innings.
C6_TotalsAreInningSums ==
    SummaryReturned =>
        /\ {"total_away_runs", "total_home_runs"} \subseteq DOMAIN result
        /\ result.total_away_runs = SumSeq(MapSeq(AwayRunsOf, result.innings))
        /\ result.total_home_runs = SumSeq(MapSeq(HomeRunsOf, result.innings))

\* C7: in every produced inning line away_runs is the sum of runs_scored
\* over top_events and home_runs the sum over bottom_events.
C7_InningRunsAreEventSums ==
    (Done /\ returned = "value" /\ IsSummary(result)) =>
        \A i \in 1..Len(result.innings) : InningRunsMatchEvents(result.innings[i])

\* C8: no two innings of a produced summary have the same inning number.
C8_InningNumbersAreDistinct ==
    (Done /\ returned = "value" /\ IsSummary(result)) =>
        \A i, j \in 1..Len(result.innings) :
            i # j => result.innings[i].inning # result.innings[j].inning

\* C9: the identifier codec round-trips: formatting the parts parsed from a
\* canonical identifier gives the identifier again, so a customized summary
\* carries the requested game_id; and parsing a formatted identifier gives
\* back the four components.
C9_IdentifierRoundTrip ==
    /\ IsCanonicalId(game_id) =>
           /\ Request.status = "ok"
           /\ FormatGameId(Request.date_str, Request.away_code, Request.home_code,
                           Request.game_number) = game_id
    /\ (entry = "fixed" /\ Done /\ IsCanonicalId(game_id) /\ IsSummary(result)
           /\ result.integration_status = "customized_template_data")
           => result.game_id = game_id
    /\ (entry = "codec" /\ Done) =>
           /\ IsCanonicalId(game_id)
           /\ result.parsed = result.components @@ [status |-> "ok"]

\* C9 witness: a canonical identifier was resolved to a customized template
\* summary that carries exactly the requested game_id.
C9_Witness ==
    /\ entry = "fixed" /\ Done /\ IsCanonicalId(game_id) /\ IsSummary(result)
    /\ result.integration_status = "customized_template_data"
    /\ result.game_id = game_id

\* C10: when every adapter fails the summary's team names and venue come
\* from the static code tables (a known code gives its full name and home
\* venue, an unknown code "<CODE> Team" and "<CODE> Stadium") and the
\* integration_status is a fallback tag.
C10_FallbackUsesCodeTables ==
    (SummaryReturned /\ Request.status = "ok" /\ world.source = "none") =>
        /\ result.integration_status \in FallbackTags
        /\ result.away_team.name = TeamName(Request.away_code)
        /\ result.home_team.name = TeamName(Request.home_code)
        /\ result.venue = DictGet(venue_mapping, Request.home_code,
                                   Request.home_code \o " Stadium")

\* The raw document a document normalizer was applied to, None otherwise.
RawDoc ==
    CASE entry = "json" /\ Done /\ "kind" \in DOMAIN world.library
              /\ world.library.kind = "game" /\ world.library.doc # Unreadable
            -> world.library.doc
      [] entry = "fixed" /\ Done /\ world.source = "template_file" -> world.file.doc
      [] OTHER -> None

FromRawDoc == Done /\ returned = "value" /\ IsSummary(result) /\ RawDoc # None

KeptRows(doc, key) == SelectSeq(DictGet(doc, key, <<>>), RowOk)

\* C11: normalizing a raw record without any optional field gives an empty
\* innings list and the fallback venue of the home code (when enrichment
\* supplied none), and every box-score row whose raw record has no average
\* renders average "0.000" and every row without an era renders era "0.00".
C11_AbsentFieldsDefault ==
    FromRawDoc =>
        /\ (RawDoc = EmptyDict /\ ~Truthy(world.supplementary) /\ world.supplementary # Unasked)
               => /\ result.innings = <<>>
                  /\ result.venue = Request.home_code \o " Stadium"
        /\ (RawDoc = EmptyDict /\ world.supplementary = Unasked)
               => /\ result.innings = <<>>
                  /\ result.venue = DictGet(venue_mapping, Request.home_code,
                                             Request.home_code \o " Stadium")
        /\ \A side \in {"away", "home"} :
              /\ LET raw == KeptRows(RawDoc, side \o "_batter_box_score_dict") IN
                 /\ Len(result.batters[side]) = Len(raw)
                 /\ \A i \in 1..Len(raw) :
                        "obp" \notin DOMAIN raw[i][1]
                            => result.batters[side][i].average = "0.000"
              /\ LET raw == KeptRows(RawDoc, side \o "_pitcher_box_score_dict") IN
                 /\ Len(result.pitchers[side]) = Len(raw)
                 /\ \A i \in 1..Len(raw) :
                        "era" \notin DOMAIN raw[i][1]
                            => result.pitchers[side][i].era = "0.00"

\* The runs one plate appearance contributes: the length of its scoring
\* runner list when present, else its runs_scored field, else 0.
Contribution(appearance) ==
    IF "scoring_runners_list" \in DOMAIN appearance
    THEN Len(appearance.scoring_runners_list)
    ELSE DictGet(appearance, "runs_scored", 0)

\* C12: every inning of a normalized document has away_runs equal to the
\* summed contributions of its top-half appearances and home_runs to those
\* of its bottom-half appearances (scoring-runner list preferred, else
\* runs_scored, else 0).
C12_RunsAreSummedContributions ==
    FromRawDoc =>
        LET raw == DictGet(RawDoc, "inning_list", <<>>) IN
        /\ Len(result.innings) = Len(raw)
        /\ \A i \in 1..Len(raw) :
              /\ result.innings[i].away_runs =
                     SumSeq(MapSeq(Contribution,
                                   DictGet(raw[i], "top_half_appearance_list", <<>>)))
              /\ result.innings[i].home_runs =
                     SumSeq(MapSeq(Contribution,
                                   DictGet(raw[i], "bottom_half_appearance_list", <<>>)))

\* The schedule entry the enrichment found for the requested game, None when
\* the team directory or the schedule did not give one (lines 42-104).
ScheduleEntry(api, away_code, home_code) ==
    IF ~api.requests_available \/ api.teams.kind # "ok" \/ api.schedule.kind # "ok"
    THEN None
    ELSE LET ids == FindTeamIds(DictGet(api.teams.body, "teams", <<>>), away_code,
                                home_code, [away |-> None, home |-> None])
         IN IF BoxTruthy(ids.away) /\ BoxTruthy(ids.home)
            THEN FindScheduleGame(DictGet(api.schedule.body, "dates", <<>>), ids, None)
            ELSE None

Enriched == Done /\ entry = "json" /\ world.api # Unasked /\ IsSummary(result)

IsText(v, text) == ~IsNone(v) /\ v = text

\* C13: a failing sub-fetch of the enrichment leaves the fields fed by the
\* other sub-fetches in the summary: once the schedule entry of the game was
\* found, the summary carries its venue, and it carries the manager of every
\* coaching roster that was fetched, whatever the remaining sub-fetches did.
C13_SubFetchesFailIndependently ==
    Enriched =>
        LET p == ParseGameId(game_id)
            api == world.api
            game == ScheduleEntry(api, p.away_code, p.home_code)
        IN game # None =>
               /\ "venue" \in DOMAIN game => result.venue = game.venue.name
               /\ \A m \in {CoachesManager(api.coaches_away)} :
                      ~IsNone(m) => IsText(result.managers.away, m)
               /\ \A m \in {CoachesManager(api.coaches_home)} :
                      ~IsNone(m) => IsText(result.managers.home, m)

HasSupplementaryBlock(v) == IsSummary(v) /\ "managers" \in DOMAIN v

\* C14: in a summary with the supplementary block none of start_time,
\* end_time, weather, wind, the two managers and the two uniforms is null,
\* whether the enrichment returned nothing or a partly filled result.
C14_SupplementaryBlockHasNoNull ==
    (Done /\ HasSupplementaryBlock(result)) =>
        /\ ~IsNone(result.start_time) /\ ~IsNone(result.end_time)
        /\ ~IsNone(result.weather) /\ ~IsNone(result.wind)
        /\ ~IsNone(result.managers.away) /\ ~IsNone(result.managers.home)
        /\ ~IsNone(result.uniforms.away) /\ ~IsNone(result.uniforms.home)

\* C15: enrichment is idempotent: with the API answering as before, laying
\* the supplementary data once more over the enriched summary changes nothing.
C15_EnrichmentIsIdempotent ==
    Enriched =>
        LET p == ParseGameId(game_id)
            again == get_mlb_api_supplementary_data(p.date_str, p.away_code, p.home_code,
                                                    world.api)
        IN MergeSupplementary(result, again) = result

C15_Witness ==
    /\ Enriched /\ world.supplementary # EmptyDict
    /\ Len(result.umpires) = 2 /\ result.venue = "Wrigley Field"
    /\ IsText(result.managers.away, "Kevin Cash")

\* The 'Umpires' text of the live feed the enrichment read, "" when it read none.
FeedUmpiresText(api, away_code, home_code) ==
    LET game == ScheduleEntry(api, away_code, home_code) IN
    IF game = None \/ DictGet(game, "gamePk", 0) = 0 \/ api.feed.kind # "ok" THEN ""
    ELSE LET info == DictGet(DictGet(DictGet(api.feed.body, "liveData", EmptyDict),
                                     "boxscore", EmptyDict), "info", <<>>)
             item == InfoItem(info, "Umpires")
         IN IF item = None THEN "" ELSE DictGet(item, "value", "")

\* The pieces of a text cut at every period and every semicolon.
RECURSIVE CutAtSemicolons(_)
CutAtSemicolons(pieces) ==
    IF Len(pieces) = 0 THEN <<>>
    ELSE Split(Head(pieces), ";") \o CutAtSemicolons(Tail(pieces))

NameAndPosition(umpire) == [name |-> umpire.name, position |-> umpire.position]

\* C16: an 'Umpires' text of entries "<POS>: <Name>" delimited by periods or
\* semicolons gives one umpire per entry, in text order, with the trimmed
\* text before the first ':' as position and the trimmed text after it as name.
C16_OneUmpirePerEntry ==
    (Enriched /\ world.supplementary # EmptyDict) =>
        LET p == ParseGameId(game_id)
            umpires_text == FeedUmpiresText(world.api, p.away_code, p.home_code)
            expected == UmpireEntries(CutAtSemicolons(Split(umpires_text, ".")))
        IN expected # <<>> =>
               MapSeq(NameAndPosition, result.umpires) = MapSeq(NameAndPosition, expected)

Exited == entry \in MainEntries /\ exit_status # None

\* The identifier the code itself parses: at least six parts with an integer
\* sixth part, and for the bridge exactly six.
CodeParses ==
    IF entry \in {"bridge", "bridge_svg"} THEN BridgeParses(game_id)
    ELSE ParseGameId(game_id).status = "ok"

IsErrorObject(out) == Len(out) = 1 /\ IsErrorPayload(out[1])

\* C17: a script run with a parsable identifier exits 0 whatever the data
\* sources did, and a run exits non-zero only when the identifier is missing
\* or unparsable, with a JSON error object on standard output.
C17_ExitStatus ==
    Exited =>
        /\ (has_arg /\ IsCanonicalId(game_id)) => exit_status = Box(0)
        /\ (~has_arg \/ ~CodeParses) => exit_status # Box(0) /\ IsErrorObject(stdout)
        /\ exit_status # Box(0) => ~has_arg \/ ~IsCanonicalId(game_id)

\* C18: a script run with an identifier argument writes exactly one JSON
\* document to standard output.
C18_OneDocumentOnStdout ==
    (entry \in MainEntries /\ has_arg /\ (exit_status # None \/ returned = "hung")) =>
        Len(stdout) = 1

\* C19: every remote call has a bounded timeout: no resolution is left
\* waiting without end on an endpoint that never answers.
C19_NoCallWaitsForever ==
    (entry \in ResolveEntries /\ has_arg) => returned # "hung"

\* The raw document whose inning list was normalized, None when there is none.
InningDoc ==
    IF entry = "extract_json" /\ Done /\ world.doc # Unreadable THEN world.doc ELSE RawDoc

\* C20: inning deduplication is first-occurrence-wins: the output has one
\* inning per inning number of the raw list, in the order of the first
\* occurrences, each with the number and the events of the first raw record
\* of that number; later records of a number contribute nothing.
C20_FirstOccurrenceWins ==
    (Done /\ returned = "value" /\ IsSummary(result) /\ InningDoc # None) =>
        LET first == DedupInnings(DictGet(InningDoc, "inning_list", <<>>), {}) IN
        /\ Len(result.innings) = Len(first)
        /\ \A i \in 1..Len(first) :
              /\ result.innings[i].inning = DictGet(first[i], "inning", 1)
              /\ Len(result.innings[i].top_events)
                     = Len(DictGet(first[i], "top_half_appearance_list", <<>>))
              /\ Len(result.innings[i].bottom_events)
                     = Len(DictGet(first[i], "bottom_half_appearance_list", <<>>))

AllHalf(events, half) ==
    \A k \in 1..Len(events) : "half" \in DOMAIN events[k] /\ events[k].half = half

\* C21: plate appearances are partitioned by their half marker: every event
\* of top_events has half "top", every event of bottom_events has half
\* "bottom", and each plate appearance of the raw inning is in exactly one of
\* the two lists.
C21_EventsPartitionedByHalf ==
    (Done /\ returned = "value" /\ IsSummary(result)) =>
        /\ \A i \in 1..Len(result.innings) :
              /\ AllHalf(DictGet(result.innings[i], "top_events", <<>>), "top")
              /\ AllHalf(DictGet(result.innings[i], "bottom_events", <<>>), "bottom")
        /\ InningDoc # None =>
              LET raw == DictGet(InningDoc, "inning_list", <<>>) IN
              Len(raw) = Len(result.innings) =>
                  \A i \in 1..Len(raw) :
                      Len(result.innings[i].top_events) + Len(result.innings[i].bottom_events)
                          = Len(DictGet(raw[i], "top_half_appearance_list", <<>>))
                              + Len(DictGet(raw[i], "bottom_half_appearance_list", <<>>))

\* The game object the library entry point loaded from the sample file.
LoadedGame ==
    IF entry = "lib" /\ Done /\ "exists" \in DOMAIN world.sample
       /\ world.sample.exists /\ world.sample.load = "game"
    THEN world.sample.game ELSE None

\* C22: a raw record that was fetched is normalized whatever optional fields
\* it lacks: the summary returned is the normalizer's, with one inning per
\* raw inning, and neither the fallback summary nor an exception.
C22_MissingFieldsAreTolerated ==
    /\ LoadedGame # None =>
           /\ returned = "value" /\ IsSummary(result)
           /\ result.integration_status = "real_baseball_lib_data"
           /\ Len(result.innings) = Len(DictGet(LoadedGame, "innings", <<>>))
    /\ (entry = "json" /\ RawDoc # None) =>
           /\ returned = "value" /\ IsSummary(result)
           /\ result.integration_status = "real_baseball_library_data"
           /\ Len(result.innings) = Len(DictGet(RawDoc, "inning_list", <<>>))

\* A record was fetched from a source and its normalization raised or gave
\* no summary: the library's game whose JSON cannot be read, the sample
\* file's game object lacking an attribute, the template file whose document
\* cannot be read.
NormalizationFailed ==
    \/ entry = "json" /\ Done /\ "kind" \in DOMAIN world.library
          /\ world.library.kind = "game" /\ world.library.doc = Unreadable
    \/ LoadedGame # None /\ ~LibGameWellFormed(LoadedGame)
    \/ entry = "fixed" /\ Done /\ "exists" \in DOMAIN world.file
          /\ world.file.exists /\ world.file.wrapper /\ world.file.doc = Unreadable

\* C23: a normalization failure is handled like an adapter failure: the
\* entry point goes on to the next source and at last to the mock or
\* fallback summary, so the caller still receives a summary.
C23_NormalizationFailureFallsThrough ==
    NormalizationFailed => returned = "value" /\ IsSummary(result)

\* The entries of the answered schedule that the lookup is asked to find:
\* away full name, home full name and game number equal the requested ones,
\* an entry that carries no game number counting as game 1.
RequestedEntries ==
    LET games == ScheduleGamesOf(world.schedule) IN
    { i \in 1..Len(games) :
        /\ "teams" \in DOMAIN games[i]
        /\ games[i].teams.away.team.name = TeamName(Request.away_code)
        /\ games[i].teams.home.team.name = TeamName(Request.home_code)
        /\ (IF "game" \in DOMAIN games[i] THEN games[i].game.gameNumber ELSE 1)
               = Request.game_number }

ScheduleAnswered ==
    /\ entry \in {"real", "fixed"} /\ returned # "pending" /\ Request.status = "ok"
    /\ world.schedule \notin {Unasked, NoAnswer}

\* C24: the schedule lookup returns a game key only of an entry whose away
\* name, home name and game number equal the requested ones (the codes
\* translated through the table of team names), it returns the key of the
\* first such entry in schedule order, and it returns None when no entry
\* matches, when the fetch fails or when the date cannot be read.
C24_ScheduleLookupReturnsFirstMatch ==
    ScheduleAnswered =>
        LET games == ScheduleGamesOf(world.schedule) IN
        IF ~StrptimeOk(Request.date_str) \/ world.schedule = FetchError
              \/ RequestedEntries = {}
        THEN RemotePk = None
        ELSE \E i \in RequestedEntries :
                 /\ \A j \in RequestedEntries : i <= j
                 /\ RemotePk = GamePkOf(games[i])

\* The second of two listed entries is the first that matches, an entry
\* listed after it matches too, and the entry point went on with its key.
C24_Witness ==
    /\ ScheduleAnswered /\ Done
    /\ Request.game_number = 2
    /\ Len(ScheduleGamesOf(world.schedule)) = 2
    /\ RequestedEntries = {2}
    /\ RemotePk = Box(745012)
    /\ Len(contacted) = 2 /\ contacted[2] \in {"schedule_details", "live_feed"}

\* Two listed entries both match and the key of the earlier one is returned.
C24_WitnessFirstOfTwo ==
    /\ ScheduleAnswered /\ Done
    /\ RequestedEntries = {1, 2}
    /\ RemotePk = Box(745001)

BaseFields ==
    {"game_id", "date", "away_team", "home_team", "status", "innings", "batters",
     "pitchers", "events", "integration_status", "note", "total_away_runs",
     "total_home_runs"}

SupplementaryFields == DOMAIN SupplementaryBlock(EmptyDict)

\* The summary the same source gives when the enrichment has nothing to add.
BaseRecord ==
    IF "kind" \in DOMAIN world.library /\ world.library.kind = "game"
    THEN extract_detailed_data_from_baseball_library(world.library.doc, game_id,
             Request.date_str, Request.away_code, Request.home_code, EmptyDict)
    ELSE JsonFallbackData(game_id, Request.date_str, Request.away_code,
                          Request.home_code, EmptyDict)

\* C25: enrichment is additive: the enriched summary has every base field
\* (game_id, date, away_team, home_team, status, innings, batters, pitchers,
\* events, integration_status, note, total_away_runs, total_home_runs) exactly
\* as the base record has it, and the only fields it writes are the
\* supplementary fields and venue.
C25_EnrichmentIsAdditive ==
    Enriched =>
        LET base == BaseRecord IN
        /\ DOMAIN result = DOMAIN base
        /\ \A f \in BaseFields : f \in DOMAIN base => result[f] = base[f]
        /\ \A f \in DOMAIN result \ (SupplementaryFields \cup {"venue"}) :
               f \in BaseFields /\ result[f] = base[f]

\* The enrichment supplied a venue other than the base record's and two
\* umpires, over a base record with innings.
C25_Witness ==
    /\ Enriched /\ Truthy(world.supplementary)
    /\ result.venue # BaseRecord.venue
    /\ Len(result.umpires) = 2
    /\ Len(result.innings) > 0
    /\ result.integration_status = "real_baseball_library_data"

\* The enrichment result a call worked with, empty when it fetched none.
EnrichmentResult ==
    IF world.supplementary = Unasked THEN EmptyDict ELSE world.supplementary

\* C26: the supplementary block of a returned summary depends only on the
\* enrichment result: whatever source gave the base record (library, remote
\* API, template file, mock or fallback data), umpires, managers, start_time,
\* end_time, weather, wind and uniforms are what the merge makes of that
\* enrichment result.
C26_BlockDependsOnEnrichmentOnly ==
    (Done /\ returned = "value" /\ IsSummary(result) /\ entry \in ResolveEntries) =>
        \A f \in SupplementaryFields :
            f \in DOMAIN result /\ result[f] = SupplementaryBlock(EnrichmentResult)[f]

\* C27: every summary returned for a valid identifier echoes it: game_id is
\* the requested identifier, date its date part, away_team.abbreviation its
\* away code and home_team.abbreviation its home code, on every path, the
\* template, mock and fallback data included.
C27_SummaryEchoesIdentifier ==
    (Done /\ returned = "value" /\ IsSummary(result) /\ IsCanonicalId(game_id)
          /\ entry \in ResolveEntries \cup {"template"}) =>
        /\ result.game_id = game_id
        /\ result.date = Request.date_str
        /\ result.away_team.abbreviation = Request.away_code
        /\ result.home_team.abbreviation = Request.home_code

\* The entries of the enrichment's schedule answer that are the requested
\* game: the teams of the request and a game number equal to the requested one.
RequestedApiGames ==
    LET api == world.api
        ids == FindTeamIds(DictGet(api.teams.body, "teams", <<>>), Request.away_code,
                           Request.home_code, [away |-> None, home |-> None])
        dates == DictGet(api.schedule.body, "dates", <<>>)
        games == UNION { Range(DictGet(dates[i], "games", <<>>)) : i \in 1..Len(dates) }
    IN { g \in games : /\ ScheduleGameMatches(g, ids)
                        /\ "gameNumber" \in DOMAIN g
                        /\ g.gameNumber = Request.game_number }

\* C28: the enrichment selects the schedule entry of the requested game: on
\* a day with more than one game of the pairing, the entry whose venue,
\* officials and game key feed the summary for game number N is the entry of
\* game N.
C28_EnrichmentUsesRequestedGame ==
    (Enriched /\ Truthy(world.supplementary)) =>
        \A g \in RequestedApiGames :
            /\ ScheduleEntry(world.api, Request.away_code, Request.home_code) = g
            /\ result.venue = g.venue.name

\* The template a call customized: what load_game_data made of the file.
TemplateData ==
    IF entry \in {"fixed", "template"} /\ Done /\ world.source = "template_file"
    THEN load_game_data(world.file.doc)
    ELSE None

CustomizedKeys ==
    {"game_id", "date", "away_team", "home_team", "venue", "integration_status", "note"}

\* C29: customize_game_data leaves the template as it was loaded and returns
\* a copy in which exactly game_id, date, away_team, home_team, venue,
\* integration_status and note are set for the request; innings, batters,
\* pitchers, events and status of the result are the template's, whatever
\* teams were requested.
C29_CustomizeChangesOnlyItsKeys ==
    TemplateData # None =>
        /\ returned = "value"
        /\ DOMAIN result = DOMAIN TemplateData \cup CustomizedKeys
        /\ \A k \in DOMAIN TemplateData \ CustomizedKeys : result[k] = TemplateData[k]
        /\ result.innings = TemplateData.innings /\ result.batters = TemplateData.batters
        /\ result.pitchers = TemplateData.pitchers /\ result.events = TemplateData.events
        /\ result.status = TemplateData.status
        /\ result.date = Request.date_str
        /\ result.away_team.abbreviation = Request.away_code
        /\ result.home_team.abbreviation = Request.home_code
        /\ result.venue = DictGet(venue_mapping, Request.home_code,
                                  Request.home_code \o " Stadium")
        /\ result.integration_status = "customized_template_data"
        /\ TemplateData.game_id = "world_series_game7"
        /\ TemplateData.away_team.abbreviation = "HOU"

\* A template with innings was customized for teams other than its own, one
\* of them without a table entry.
C29_Witness ==
    /\ TemplateData # None /\ entry = "fixed"
    /\ Len(result.innings) > 0 /\ Len(result.innings[1].top_events) > 0
    /\ Request.home_code = "ZZ" /\ result.home_team.name = "ZZ Team"
    /\ result.away_team.name = "Tampa Bay Rays"

BridgeCalled == entry \in {"bridge", "bridge_svg"} /\ returned # "pending"

\* C30: get_game_details and get_game_svg never raise and return an object
\* with a boolean success: success is true only when the library returned a
\* game, and then svg_content (for get_game_details also game_id and
\* game_data) is present; success is false, with an error message, when the
\* identifier has not exactly 6 segments, when the game number is no
\* integer, when the game is not found and when the library call fails.
C30_BridgeReturnsSuccessFlag ==
    BridgeCalled =>
        LET parts == Split(game_id, "-")
            asked == "kind" \in DOMAIN world.library
        IN /\ returned = "value"
           /\ "success" \in DOMAIN result /\ result.success \in BOOLEAN
           /\ result.success =>
                  /\ asked /\ world.library.kind = "game"
                  /\ "svg_content" \in DOMAIN result
                  /\ entry = "bridge" =>
                         /\ "game_data" \in DOMAIN result
                         /\ "game_id" \in DOMAIN result /\ result.game_id = game_id
           /\ ~result.success => "error" \in DOMAIN result /\ result.error # ""
           /\ (Len(parts) # 6 \/ ~IsIntLiteral(parts[Len(parts)])) => ~result.success
           /\ (asked /\ world.library.kind \in {"none", "raises"}) => ~result.success
           /\ stdout = <<result>>

\* get_game_svg returned the drawing of a game the library found.
C30_Witness ==
    /\ BridgeCalled /\ entry = "bridge_svg"
    /\ result.success /\ result.svg_content # ""
    /\ world.library.kind = "game"

\* get_game_details returned game_id, game_data and svg_content.
C30_WitnessDetails ==
    /\ BridgeCalled /\ entry = "bridge"
    /\ result.success /\ result.game_id = game_id /\ result.game_data # EmptyDict

====
